---- MODULE Spec2Model ----
(***************************************************************************)
(* Tentative-load (thread-interference) analysis of llpe:                  *)
(* lib/Analysis/Integrator/TentativeLoads.cpp, with the context records    *)
(* created by main/Shadows.cpp.                                            *)
(*                                                                         *)
(* Five specifications share this module:                                  *)
(*   SpecMerge - TLMapPointer::mergeStores applied to bounded interval     *)
(*               maps, in every order and grouping;                        *)
(*   SpecRead  - shouldCheckRead / shouldCheckLoadFrom / shouldCheckLoad   *)
(*               applied to bounded stores and loads;                      *)
(*   Spec      - the recursive walk findTentativeLoads over bounded        *)
(*               programs and context trees;                               *)
(*   SpecRerun - rerunTentativeLoads after a disabled callee;              *)
(*   SpecShadow - getFunctionInvarInfo (block order, loop records, frame   *)
(*               size) and getInst / getInstFalling over bounded CFGs.     *)
(***************************************************************************)
EXTENDS Integers, Sequences, FiniteSets, TLC

VARIABLES
  mode,               \* which specification drives the state
  \* ---- SpecMerge
  maps,               \* TLMapTy contents of each predecessor's map
  alive,              \* maps not yet merged away
  orig,               \* the maps as first given (history)
  lastMerge,          \* the last mergeStores call: inputs and outputs (history)
  \* ---- SpecRead
  rd,                 \* the store and the load handed to shouldCheckLoad
  rdOut,              \* the classification it returned
  \* ---- Spec
  prog,               \* the functions' shadow models and the context tree
  stores,             \* the TLLocalStore objects ever allocated, by id
  tlStore,            \* ShadowBB::tlStore of each created block: a store id, 0 for null
  isThreadLocal,      \* ShadowInstruction::isThreadLocal of each instruction
  readsTentativeData, \* IntegrationAttempt::readsTentativeData of each context
  tentativeLoadsRun,  \* IntegrationAttempt::tentativeLoadsRun of each context
  yieldState,         \* IntegrationAttempt::yieldState of each context
  checked,            \* checkedInstructionsHere and checkedInstructionsChildren of each context
  hist,               \* history: runs made, snapshots, stores misused
  \* ---- SpecShadow
  fun,                \* the llvm Function handed to getFunctionInvarInfo
  functionInfo,       \* the ShadowFunctionInvar built for it, none before
  shadows,            \* the contexts prepared over it and the last getInst call
  \* ---- SpecBenefit
  hcf                 \* the HypotheticalConstantFolder and the calls it has still to make

vars == <<mode, maps, alive, orig, lastMerge, rd, rdOut, prog, stores, tlStore,
          isThreadLocal, readsTentativeData, tentativeLoadsRun, yieldState, checked, hist,
          fun, functionInfo, shadows, hcf>>

walkVars == <<prog, stores, tlStore, isThreadLocal, readsTentativeData,
              tentativeLoadsRun, yieldState, checked, hist>>

(***************************************************************************)
(* Bounds                                                                  *)
(***************************************************************************)
MaxByte == 3          \* bytes 0 .. MaxByte-1 of an allocation
NPreds == 3           \* predecessor maps merged in SpecMerge
ObjSize == 2          \* store size of the allocations of the walked programs
NIter == 2            \* iterations of a terminated peel attempt
MaxRuns == 2          \* runs of the analysis over one context tree
MaxCounts == 2        \* calls of countTentativeInstructions on one context tree

Bytes == 0 .. (MaxByte - 1)

Min(a, b) == IF a <= b THEN a ELSE b
\* the least element of a set of numbers
Min0(S) == CHOOSE x \in S : \A y \in S : x <= y
Max(a, b) == IF a >= b THEN a ELSE b

(***************************************************************************)
(* TLMapTy: an interval map from half-open byte ranges [start, stop) to    *)
(* true, kept sorted, disjoint and coalesced.  A map is a sequence of      *)
(* <<start, stop>>.                                                        *)
(***************************************************************************)
EmptyMap == << >>

\* the bytes an interval map holds
MapBytes(M) == { x \in Bytes : \E k \in 1 .. Len(M) : M[k][1] <= x /\ x < M[k][2] }

\* IntervalMap::find(x): the first interval that ends after x; Len(M)+1 is end()
IMFind(M, x) ==
  IF \E k \in 1 .. Len(M) : M[k][2] > x
  THEN CHOOSE k \in 1 .. Len(M) : M[k][2] > x /\ \A h \in 1 .. (k - 1) : M[h][2] <= x
  ELSE Len(M) + 1

\* IntervalMap::insert(a, b, true): add [a, b), coalescing with the neighbours
\* that touch it.  The callers only insert ranges disjoint from the map.
IMInsert(M, a, b) ==
  LET before == SelectSeq(M, LAMBDA r : r[2] < a)
      after  == SelectSeq(M, LAMBDA r : r[1] > b)
      touch  == SelectSeq(M, LAMBDA r : r[2] >= a /\ r[1] <= b)
      lo == IF Len(touch) = 0 THEN a ELSE Min(a, touch[1][1])
      hi == IF Len(touch) = 0 THEN b ELSE Max(b, touch[Len(touch)][2])
  IN before \o << <<lo, hi>> >> \o after

RECURSIVE IMInsertAll(_, _)
IMInsertAll(M, ranges) ==
  IF ranges = << >> THEN M
  ELSE IMInsertAll(IMInsert(M, ranges[1][1], ranges[1][2]), Tail(ranges))

\* the interval map holding exactly the bytes of S
RECURSIVE MapOfFrom(_, _)
MapOfFrom(S, x) ==
  IF x >= MaxByte THEN EmptyMap
  ELSE IF x \in S THEN IMInsert(MapOfFrom(S, x + 1), x, x + 1)
  ELSE MapOfFrom(S, x + 1)

MapOf(S) == MapOfFrom(S, 0)

AllMaps == { MapOf(S) : S \in SUBSET Bytes }

(***************************************************************************)
(* TLMapPointer::mergeStores                                               *)
(***************************************************************************)
\* the inner loop: the intervals of mergeTo from find(it.start()) on that start
\* before it.stop(), each clipped to `it`
RECURSIVE keepRangesInner(_, _, _)
keepRangesInner(it, To, toit) ==
  IF toit <= Len(To) /\ To[toit][1] < it[2]
  THEN << <<Max(To[toit][1], it[1]), Min(To[toit][2], it[2])>> >>
         \o keepRangesInner(it, To, toit + 1)
  ELSE << >>

\* the outer loop over the intervals of mergeFrom
RECURSIVE keepRangesFrom(_, _, _)
keepRangesFrom(From, To, k) ==
  IF k > Len(From) THEN << >>
  ELSE keepRangesInner(From[k], To, IMFind(To, From[k][1]))
         \o keepRangesFrom(From, To, k + 1)

\* the variant that starts the inner loop at the first interval ending at or
\* after it.start() (closed-interval find)
keepRangesClosedFind(From, To) ==
  LET RECURSIVE outer(_)
      outer(k) ==
        IF k > Len(From) THEN << >>
        ELSE LET x == From[k][1]
                 f == IF \E i \in 1 .. Len(To) : To[i][2] >= x
                      THEN CHOOSE i \in 1 .. Len(To) :
                             To[i][2] >= x /\ \A h \in 1 .. (i - 1) : To[h][2] < x
                      ELSE Len(To) + 1
             IN keepRangesInner(From[k], To, f) \o outer(k + 1)
  IN outer(1)

\* the ranges mergeStores keeps: the bytes safe in both maps
keepRanges(From, To) == keepRangesFrom(From, To, 1)

\* the variant that inserts the kept ranges without clearing mergeTo first
mergeStoresNoClear(From, To) ==
  IMInsertAll(To, keepRanges(From, To))

\* mergeTo after the call: cleared, then every kept range inserted
mergeStores(From, To) ==
  IMInsertAll(EmptyMap, keepRanges(From, To))

(***************************************************************************)
(* Values, pointers and stores                                             *)
(***************************************************************************)
\* ThreadLocalState
TLS_NEVERCHECK == "nevercheck"
TLS_NOCHECK == "nocheck"
TLS_MUSTCHECK == "mustcheck"

\* the order std::min uses in shouldCheckLoad: the loop over the candidate
\* targets starts from TLS_NEVERCHECK and stops at TLS_MUSTCHECK
TLSRank(t) == IF t = TLS_MUSTCHECK THEN 0 ELSE IF t = TLS_NOCHECK THEN 1 ELSE 2
TLSMin(a, b) == IF TLSRank(a) <= TLSRank(b) THEN a ELSE b

\* objects a pointer can be based on
ObjNull == 0          \* the null pointer
G1 == 1               \* a global variable, member of the lock domain of LOCKD
G2 == 2               \* a global variable
GC == 3               \* a constant global variable
H1 == 4               \* the heap allocation a realloc call returns
StackBase == 10       \* the stack allocation of context c is StackBase + c
Globals == {G1, G2, GC}

isNullPointer(V) == V = ObjNull
isConstantGV(V) == V = GC
isNullOrConst(V) == isNullPointer(V) \/ isConstantGV(V)

\* ImprovedVal: a base object and an offset
IVal(V, Offset) == [V |-> V, Offset |-> Offset]

\* What value propagation knows about a pointer operand.  iv: the operand has
\* a value set of its own (getIVOrSingleVal gives IV); otherwise it is a single
\* value.  setType is "PB" for a pointer set.
PtrOp(iv, setType, unknown, vals) ==
  [iv |-> iv, setType |-> setType, unknown |-> unknown, vals |-> vals]

UniquePtr(V, Offset) == PtrOp(FALSE, "PB", FALSE, << IVal(V, Offset) >>)

\* tryGetUniqueIV: the one value of the operand, if it has exactly one
hasUniqueIV(ptr) == (~ptr.iv) \/ ((~ptr.unknown) /\ Len(ptr.vals) = 1)

\* What value propagation knows about the loaded value (SI.i.PB): a single
\* set, possibly wholly unknown, or a multi: ranges <<start, stop, unknown>>
PBSingle(unknown) == [kind |-> "single", unknown |-> unknown, ranges |-> << >>]
PBMulti(ranges) == [kind |-> "multi", unknown |-> FALSE, ranges |-> ranges]

\* No entry for an object in a store
NoEntry == << <<-1, -1>> >>

(***************************************************************************)
(* shouldCheckRead, shouldCheckLoadFrom, shouldCheckLoad                   *)
(***************************************************************************)
\* S is a TLLocalStore: S.m[V] is getReadableStoreFor(V), NoEntry for none
shouldCheckReadAny(Ptr, Size, S) ==
  IF isNullPointer(Ptr.V) THEN FALSE
  ELSE IF isConstantGV(Ptr.V) THEN FALSE
  ELSE IF S.m[Ptr.V] = NoEntry THEN S.allOthersClobbered
  ELSE LET Map == S.m[Ptr.V]
       IN ~(\E k \in 1 .. Len(Map) : Map[k][2] > Ptr.Offset /\ Map[k][1] < Ptr.Offset + Size)

\* variant: the read is covered only by an interval that starts where it starts
shouldCheckReadFromStart(Ptr, Size, S) ==
  IF isNullPointer(Ptr.V) THEN FALSE
  ELSE IF isConstantGV(Ptr.V) THEN FALSE
  ELSE IF S.m[Ptr.V] = NoEntry THEN S.allOthersClobbered
  ELSE LET Map == S.m[Ptr.V]
           it == IMFind(Map, Ptr.Offset)
           coveredByMap == /\ it # Len(Map) + 1
                           /\ Map[it][1] = Ptr.Offset
                           /\ Map[it][2] >= Ptr.Offset + Size
       IN ~coveredByMap

shouldCheckRead(Ptr, Size, S) ==
  IF isNullPointer(Ptr.V) THEN FALSE
  ELSE IF isConstantGV(Ptr.V) THEN FALSE
  ELSE IF S.m[Ptr.V] = NoEntry THEN S.allOthersClobbered
  ELSE LET Map == S.m[Ptr.V]
           it == IMFind(Map, Ptr.Offset)
           coveredByMap == /\ it # Len(Map) + 1
                           /\ Map[it][1] <= Ptr.Offset
                           /\ Map[it][2] >= Ptr.Offset + Size
       IN ~coveredByMap

RECURSIVE walkPathConditions(_, _, _, _, _, _, _)
RECURSIVE shouldCheckMultiFrom(_, _, _, _)
shouldCheckMultiFrom(ranges, k, Ptr, S) ==
  IF k > Len(ranges) THEN TLS_NOCHECK
  ELSE IF ranges[k][3] THEN shouldCheckMultiFrom(ranges, k + 1, Ptr, S)
  ELSE IF shouldCheckRead(IVal(Ptr.V, Ptr.Offset + ranges[k][1]),
                          ranges[k][2] - ranges[k][1], S)
       THEN TLS_MUSTCHECK
       ELSE shouldCheckMultiFrom(ranges, k + 1, Ptr, S)

shouldCheckLoadFrom(SI, Ptr, LoadSize, S) ==
  IF isNullOrConst(Ptr.V) THEN TLS_NEVERCHECK
  ELSE IF SI.pb.kind = "multi" THEN shouldCheckMultiFrom(SI.pb.ranges, 1, Ptr, S)
  ELSE IF shouldCheckRead(Ptr, LoadSize, S) THEN TLS_MUSTCHECK ELSE TLS_NOCHECK

RECURSIVE shouldCheckLoadValues(_, _, _, _)
shouldCheckLoadValues(SI, i, result, S) ==
  IF i > Len(SI.ptr.vals) \/ result = TLS_MUSTCHECK THEN result
  ELSE shouldCheckLoadValues(SI, i + 1,
         TLSMin(shouldCheckLoadFrom(SI, SI.ptr.vals[i], SI.size, S), result), S)

\* shouldCheckCopy: SI.pb holds memcpyValues[SI] (no ranges: unpopulated),
\* SI.size the constant length when SI.lenValid
shouldCheckCopy(SI, Ptr, S) ==
  IF (~SI.lenValid) \/ (~hasUniqueIV(Ptr)) \/ Ptr.setType # "PB" THEN TLS_NEVERCHECK
  ELSE IF SI.size = 0 THEN TLS_NEVERCHECK
  ELSE IF SI.pb.ranges = << >> THEN TLS_NEVERCHECK
  ELSE shouldCheckMultiFrom(SI.pb.ranges, 1, Ptr.vals[1], S)

\* shouldCheckLoad: a load, else a memory transfer (source operand) or a
\* realloc call (old pointer), both held in SI.ptr
shouldCheckLoad(SI, S, programSingleThreaded) ==
  IF programSingleThreaded THEN TLS_NEVERCHECK
  ELSE IF SI.op # "load" THEN shouldCheckCopy(SI, SI.ptr, S)
  ELSE IF SI.pb.kind = "single" /\ SI.pb.unknown THEN TLS_NEVERCHECK
  ELSE IF SI.ptr.iv
       THEN IF SI.ptr.unknown \/ SI.ptr.setType # "PB" THEN TLS_NEVERCHECK
            ELSE shouldCheckLoadValues(SI, 1, TLS_NEVERCHECK, S)
       ELSE IF SI.ptr.setType # "PB" THEN TLS_NEVERCHECK
            ELSE shouldCheckLoadFrom(SI, SI.ptr.vals[1], SI.size, S)

(***************************************************************************)
(* Programs: the shadow model of each function (ShadowBBInvar, loop        *)
(* descriptors) and the context tree over it.  Block indices start at 0 as *)
(* in the code; contexts are numbered from 1, the root being 1.            *)
(***************************************************************************)
NoPtr == PtrOp(FALSE, "Int", FALSE, << IVal(ObjNull, 0) >>)

\* instructions.  dst: the destination operand of a memory transfer, the
\* returned pointer of a malloc or realloc; lenValid: the length is a constant
\* integer; yields: the called function is in yieldFunctions
Inst(op, ptr, size, pb, volatile, dom, pess) ==
  [op |-> op, ptr |-> ptr, size |-> size, pb |-> pb, volatile |-> volatile,
   dom |-> dom, pess |-> pess, dst |-> NoPtr, lenValid |-> TRUE,
   yields |-> (op = "yield")]

\* a load of `size` bytes at obj+off; known: the loaded value is not wholly unknown
Load(obj, off, size, known) ==
  Inst("load", UniquePtr(obj, off), size, PBSingle(~known), FALSE, {}, FALSE)
\* a volatile load that is not 'simple'
VolatileLoad(obj, off, size, known) ==
  Inst("load", UniquePtr(obj, off), size, PBSingle(~known), TRUE, {}, FALSE)
Store(obj, off, size) ==
  Inst("store", UniquePtr(obj, off), size, PBSingle(TRUE), FALSE, {}, FALSE)
\* a call to a registered yield function: no lock domain, a lock domain, or
\* listed as a pessimistic lock
Yield == Inst("yield", NoPtr, 0, PBSingle(TRUE), FALSE, {}, FALSE)
YieldDom == Inst("yield", NoPtr, 0, PBSingle(TRUE), FALSE, {G1}, FALSE)
YieldPess == Inst("yield", NoPtr, 0, PBSingle(TRUE), FALSE, {}, TRUE)
\* memcpy/memmove of len bytes from sobj to dobj; vals: the ranges read
\* during information propagation (memcpyValues)
Memcpy(dobj, sobj, len, vals) ==
  [Inst("memcpy", UniquePtr(sobj, 0), len, PBMulti(vals), FALSE, {}, FALSE)
     EXCEPT !.dst = UniquePtr(dobj, 0)]
\* realloc(sobj, len), returning the heap allocation H1
Realloc(sobj, len, vals) ==
  [Inst("realloc", UniquePtr(sobj, 0), len, PBMulti(vals), FALSE, {}, FALSE)
     EXCEPT !.dst = UniquePtr(H1, 0)]
\* memset of len bytes of obj; constLen: the length is a constant integer
Memset(obj, len, constLen) ==
  [Inst("memset", UniquePtr(obj, 0), len, PBSingle(TRUE), FALSE, {}, FALSE)
     EXCEPT !.lenValid = constLen]
\* a call recognised as a file read of readSize bytes into obj
ReadFile(obj, readSize) ==
  Inst("readfile", UniquePtr(obj, 0), readSize, PBSingle(TRUE), FALSE, {}, FALSE)
\* malloc, returning the heap allocation H1
Malloc ==
  [Inst("malloc", NoPtr, 0, PBSingle(TRUE), FALSE, {}, FALSE) EXCEPT !.dst = UniquePtr(H1, 0)]
\* a call to another function of SpecialFunctionMap (free, say)
Special == Inst("special", NoPtr, 0, PBSingle(TRUE), FALSE, {}, FALSE)
\* the call SI, its callee being in yieldFunctions as well
Registered(SI) == [SI EXCEPT !.yields = TRUE]
\* a call to an ordinary function, which may have an inline attempt
Call == Inst("call", NoPtr, 0, PBSingle(FALSE), FALSE, {}, FALSE)
\* an alloca: the stack allocation of the enclosing function's context
Alloca == Inst("alloca", NoPtr, 0, PBSingle(FALSE), FALSE, {}, FALSE)
\* an instruction that touches no memory
Nop == Inst("other", NoPtr, 0, PBSingle(FALSE), FALSE, {}, FALSE)

NoLoop == "none"

Block(insts, succIdxs, naturalScope, isRet) ==
  [insts |-> insts, succIdxs |-> succIdxs, naturalScope |-> naturalScope, isRet |-> isRet]

LoopInvar(headerIdx, preheaderIdx, latchIdx, nBlocks) ==
  [headerIdx |-> headerIdx, preheaderIdx |-> preheaderIdx, latchIdx |-> latchIdx,
   nBlocks |-> nBlocks, parent |-> NoLoop]

SeqToBlocks(bs) == [i \in 0 .. (Len(bs) - 1) |-> bs[i + 1]]

\* a path condition: the block it is attached to (function and index), the
\* stack index it was given for, the asserted pointer with the offset into it
\* and the length of the asserted value
PathCondition(fromStackIdx, fromBB, sv, offset, len) ==
  [fromStackIdx |-> fromStackIdx, fromBB |-> fromBB, sv |-> sv, offset |-> offset, len |-> len]

\* PathConditions: the integer-memory and the string conditions, and no path
\* condition function
PathConditions(Intmem, String) ==
  [IntmemPathConditions |-> Intmem, StringPathConditions |-> String,
   FuncPathConditions |-> << >>]

\* PathFunc: a path condition function given for stack index stackIdx, with
\* the context IA made for it
PathFunc(stackIdx, IA) == [stackIdx |-> stackIdx, IA |-> IA]

NoPathConditions == PathConditions(<< >>, << >>)

\* the stack index of the conditions held by a function itself: the largest
\* index, above every depth of the target stack
UINT_MAX == 2147483647

Function(blocks, frameSize, loops) ==
  [nBlocks |-> Len(blocks), blocks |-> SeqToBlocks(blocks), frameSize |-> frameSize,
   loops |-> loops, pathConditions |-> NoPathConditions]

NoLoops == [l \in {} |-> LoopInvar(0, 0, 0, 0)]

\* a peel attempt of a context: its loop, flags and iteration contexts
Peel(L, terminated, enabled, iters) ==
  [L |-> L, terminated |-> terminated, enabled |-> enabled, Iterations |-> iters]

\* a context: an InlineAttempt (kind "inline") or a PeelIteration ("iter")
Context(kind, F, L, parent, BBsOffset, nBBs, enabled, isRootMain, hasCallers, created, succsAlive, inlineChildren, peelChildren) ==
  [kind |-> kind, F |-> F, L |-> L, parent |-> parent, BBsOffset |-> BBsOffset,
   nBBs |-> nBBs, enabled |-> enabled, isRootMain |-> isRootMain,
   hasCallers |-> hasCallers, created |-> created, succsAlive |-> succsAlive,
   inlineChildren |-> inlineChildren, peelChildren |-> peelChildren]

\* accessors
CtxIds == 1 .. Len(prog.ctx)
Ctx(c) == prog.ctx[c]
invarInfo(c) == prog.fns[Ctx(c).F]
getBBInvar(c, i) == invarInfo(c).blocks[i]
LInfo(c, L) == invarInfo(c).loops[L]
\* getBB(i): is there a ShadowBB for block i in context c
getBB(c, i) == i \in Ctx(c).created
\* getInlineAttempt(SI): the inline child at instruction j of block b, 0 for none
getInlineAttempt(c, b, j) ==
  IF \E t \in Ctx(c).inlineChildren : t[1] = b /\ t[2] = j
  THEN (CHOOSE t \in Ctx(c).inlineChildren : t[1] = b /\ t[2] = j)[3]
  ELSE 0
hasPeelAttempt(c, L) == \E pa \in Ctx(c).peelChildren : pa.L = L
getPeelAttempt(c, L) == CHOOSE pa \in Ctx(c).peelChildren : pa.L = L

\* Loop::contains(const Loop*): L contains S when S is L or nested in L
RECURSIVE LoopContains(_, _, _)
LoopContains(c, L, S) ==
  IF S = NoLoop THEN FALSE
  ELSE IF S = L THEN TRUE
  ELSE LoopContains(c, L, LInfo(c, S).parent)

\* getFunctionRoot: the inline attempt a context belongs to
RECURSIVE getFunctionRoot(_)
getFunctionRoot(c) == IF Ctx(c).kind = "inline" THEN c ELSE getFunctionRoot(Ctx(c).parent)

\* targetCallInfo->targetStackDepth of a function root c, -1 without targetCallInfo
targetStackDepth(c) ==
  IF \E d \in 1 .. Len(prog.targetStack) : prog.targetStack[d] = c
  THEN (CHOOSE d \in 1 .. Len(prog.targetStack) : prog.targetStack[d] = c) - 1
  ELSE -1

Objs == Globals \cup {H1} \cup { StackBase + c : c \in CtxIds }

(***************************************************************************)
(* TLLocalStore: reference-counted, copy-on-write.  The analysis state A   *)
(* threaded through the walk holds the stores and the per-block and        *)
(* per-instruction fields.                                                 *)
(***************************************************************************)
\* the function on the objects S with the maps f[o], built entry by entry
RECURSIVE MapTable(_, _)
MapTable(S, f) ==
  IF S = {} THEN << >>
  ELSE LET o == CHOOSE x \in S : \A y \in S : x <= y
       IN (o :> f[o]) @@ MapTable(S \ {o}, f)

NoEntries == MapTable(Objs, [o \in Objs |-> NoEntry])

NewStoreRec ==
  [refCount |-> 1, allOthersClobbered |-> FALSE, m |-> NoEntries,
   frames |-> << >>, live |-> TRUE]

\* record a use of store sid: a null pointer or a freed store is a misuse
Use(A, sid) ==
  IF sid = 0 THEN [A EXCEPT !.hist.nullDeref = TRUE]
  ELSE IF ~A.stores[sid].live THEN [A EXCEPT !.hist.useAfterFree = TRUE]
  ELSE A

SetTL(A, c, b, sid) == [A EXCEPT !.tlStore[<<c, b>>] = sid]
TL(A, c, b) == A.tlStore[<<c, b>>]

\* new TLLocalStore
AllocStore(A, rec) == [A EXCEPT !.stores = Append(@, rec)]

\* block b takes a new TLLocalStore as its store
TakeNewStore(A, c, b, rec) == SetTL(AllocStore(A, rec), c, b, Len(A.stores) + 1)

\* LocalStoreMap::dropReference: delete on the last one
dropReference(A, sid) ==
  IF sid = 0 THEN [A EXCEPT !.hist.nullDeref = TRUE]
  ELSE LET B == Use(A, sid)
           n == B.stores[sid].refCount - 1
       IN [B EXCEPT !.stores[sid].refCount = n,
                    !.stores[sid].live = (n > 0),
                    !.hist.negativeCount = @ \/ (n < 0)]

\* getWritableFrameList on the store of block b: the store itself when b is its
\* only holder, else a private copy (the shared one loses b's reference)
getWritableFrameList(A, c, b) ==
  LET sid == TL(A, c, b)
      B == Use(A, sid)
  IN IF sid = 0 THEN B
     ELSE IF B.stores[sid].refCount = 1 THEN B
     ELSE TakeNewStore([B EXCEPT !.stores[sid].refCount = @ - 1], c, b,
                       [B.stores[sid] EXCEPT !.refCount = 1])

\* getEmptyMap on the store of block b: cleared in place when b is its only
\* holder, else a fresh empty store with the same frames
getEmptyMap(A, c, b) ==
  LET sid == TL(A, c, b)
      B == Use(A, sid)
      empty == NoEntries
  IN IF sid = 0 THEN B
     ELSE IF B.stores[sid].refCount = 1 THEN [B EXCEPT !.stores[sid].m = empty]
     ELSE TakeNewStore([B EXCEPT !.stores[sid].refCount = @ - 1], c, b,
                       [B.stores[sid] EXCEPT !.refCount = 1, !.m = empty])

\* ShadowBB::getWritableTLStore(O): the writable store, with an (empty) map for
\* O created if it had none
getOrCreateStoreFor(B, c, b, O) ==
  LET sid == TL(B, c, b)
  IN IF sid = 0 THEN B
     ELSE IF B.stores[sid].m[O] = NoEntry
          THEN [B EXCEPT !.stores[sid].m[O] = EmptyMap]
          ELSE B

getWritableTLStore(A, c, b, O) ==
  getOrCreateStoreFor(getWritableFrameList(A, c, b), c, b, O)

\* pushStackFrame(IA) / popStackFrame() on the (already writable) store of b;
\* popping releases the maps of the frame's stack allocations
pushStackFrame(A, c, b, IA) ==
  LET sid == TL(A, c, b)
  IN IF sid = 0 THEN Use(A, sid)
     ELSE [Use(A, sid) EXCEPT !.stores[sid].frames = Append(@, IA)]

popStackFrame(A, c, b) ==
  LET sid == TL(A, c, b)
      B == Use(A, sid)
  IN IF sid = 0 THEN B
     ELSE LET fr == B.stores[sid].frames
          IN IF fr = << >> THEN [B EXCEPT !.hist.popEmpty = TRUE]
             ELSE [B EXCEPT !.stores[sid].frames = SubSeq(fr, 1, Len(fr) - 1),
                            !.stores[sid].m[StackBase + fr[Len(fr)]] = NoEntry]

(***************************************************************************)
(* markAllObjectsTentative, markGoodBytes, updateTLStore                   *)
(***************************************************************************)
BARRIER_NONE == "none"
BARRIER_HERE == "here"

\* the emptied store B of block b is marked as having every object clobbered
setAllOthersClobbered(B, c, b) ==
  LET sid == TL(B, c, b)
  IN IF sid = 0 THEN B
     ELSE [B EXCEPT !.stores[sid].allOthersClobbered = TRUE,
                    !.yieldState[c] = BARRIER_HERE]

\* variant: the store is emptied where it is, whoever else holds it
markAllObjectsTentativeInPlace(A, c, b) ==
  IF TL(A, c, b) = 0 THEN Use(A, 0)
  ELSE setAllOthersClobbered([Use(A, TL(A, c, b)) EXCEPT !.stores[TL(A, c, b)].m = NoEntries],
                             c, b)

markAllObjectsTentative(A, c, b) == setAllOthersClobbered(getEmptyMap(A, c, b), c, b)

\* the gaps of [start, stop) to the right of the intervals from `it` on
RECURSIVE gapsRight(_, _, _)
gapsRight(M, it, stop) ==
  IF it > Len(M) \/ M[it][1] >= stop THEN << >>
  ELSE LET gapend == IF it + 1 > Len(M) THEN stop ELSE Min(stop, M[it + 1][1])
           here == IF M[it][2] < stop /\ M[it][2] # gapend
                   THEN << <<M[it][2], gapend>> >> ELSE << >>
       IN here \o gapsRight(M, it + 1, stop)

\* the ranges markGoodBytes adds to the map M (NoEntry: no map) for [start, stop)
addRanges(M, start, stop) ==
  IF M = NoEntry THEN << <<start, stop>> >>
  ELSE LET it == IMFind(M, start)
       IN IF it = Len(M) + 1 \/ M[it][1] >= stop THEN << <<start, stop>> >>
          ELSE (IF M[it][1] > start THEN << <<start, M[it][1]>> >> ELSE << >>)
                 \o gapsRight(M, it, stop)

\* variant: the ranges `add` replace what the map held
insertRangesOnly(C, c, b, V, add) ==
  [C EXCEPT !.stores[TL(C, c, b)].m[V] = IMInsertAll(EmptyMap, add)]

\* the ranges `add` become safe in the writable map C of object V
insertRanges(C, c, b, V, add) ==
  [C EXCEPT !.stores[TL(C, c, b)].m[V] = IMInsertAll(@, add)]

\* the store is made writable only when there are ranges to add
insertGoodRanges(B, c, b, V, add) ==
  IF add = << >> THEN B
  ELSE insertRanges(getWritableTLStore(B, c, b, V), c, b, V, add)

\* variant: the bytes are marked in a disabled context too
markGoodBytesAlways(A, c, b, GoodPtr, Length, contextEnabled, Offset) ==
  LET sid == TL(A, c, b)
      B == Use(A, sid)
  IN IF sid = 0 THEN B
     ELSE IF ~B.stores[sid].allOthersClobbered THEN B
     ELSE IF ~hasUniqueIV(GoodPtr) THEN B
     ELSE IF GoodPtr.setType # "PB" THEN B
     ELSE IF GoodPtr.vals[1].V \notin Objs THEN B
     ELSE IF isConstantGV(GoodPtr.vals[1].V) THEN B
     ELSE insertGoodRanges(B, c, b, GoodPtr.vals[1].V,
                           addRanges(B.stores[sid].m[GoodPtr.vals[1].V],
                                     GoodPtr.vals[1].Offset + Offset,
                                     GoodPtr.vals[1].Offset + Offset + Length))

markGoodBytes(A, c, b, GoodPtr, Length, contextEnabled, Offset) ==
  LET sid == TL(A, c, b)
      B == Use(A, sid)
  IN IF ~contextEnabled THEN A
     ELSE IF sid = 0 THEN B
     ELSE IF ~B.stores[sid].allOthersClobbered THEN B
     ELSE IF ~hasUniqueIV(GoodPtr) THEN B
     ELSE IF GoodPtr.setType # "PB" THEN B
     ELSE IF GoodPtr.vals[1].V \notin Objs THEN B
     ELSE IF isConstantGV(GoodPtr.vals[1].V) THEN B
     ELSE LET V == GoodPtr.vals[1].V
              start == GoodPtr.vals[1].Offset + Offset
              stop == GoodPtr.vals[1].Offset + Offset + Length
          IN insertGoodRanges(B, c, b, V, addRanges(B.stores[sid].m[V], start, stop))

\* the writable map of global g in the store B of block b is emptied
clearMap(B, c, b, g) ==
  IF TL(B, c, b) = 0 THEN B ELSE [B EXCEPT !.stores[TL(B, c, b)].m[g] = EmptyMap]

\* variant: a lock domain is taken for no domain at all
clobberDomainAll(A, c, b, dom) == markAllObjectsTentative(A, c, b)

\* the lock-domain loop: every global of the domain gets an empty map
RECURSIVE clobberDomain(_, _, _, _)
clobberDomain(A, c, b, dom) ==
  IF dom = {} THEN A
  ELSE LET g == CHOOSE x \in dom : \A y \in dom : x <= y
       IN clobberDomain(clearMap(getWritableTLStore(A, c, b, g), c, b, g),
                        c, b, dom \ {g})

updateTLStoreNoYield(A, c, b, SI, contextEnabled) ==
  IF SI.op \in {"load", "store"}
  THEN markGoodBytes(A, c, b, SI.ptr, SI.size, contextEnabled, 0)
  ELSE A

\* walkCopyInst: nothing without a constant length, else both operands' bytes
walkCopyInst(A, c, b, CopyFrom, CopyTo, SI, contextEnabled) ==
  IF ~SI.lenValid THEN A
  ELSE markGoodBytes(markGoodBytes(A, c, b, CopyTo, SI.size, contextEnabled, 0),
                     c, b, CopyFrom, SI.size, contextEnabled, 0)

updateTLStore(A, c, b, SI, contextEnabled) ==
  IF SI.op = "alloca"
  THEN markGoodBytes(A, c, b, UniquePtr(StackBase + getFunctionRoot(c), 0), ObjSize,
                     contextEnabled, 0)
  ELSE IF SI.op = "load"
  THEN IF SI.volatile /\ ~prog.programSingleThreaded
       THEN markAllObjectsTentative(A, c, b)
       ELSE markGoodBytes(A, c, b, SI.ptr, SI.size, contextEnabled, 0)
  ELSE IF SI.op = "store"
  THEN markGoodBytes(A, c, b, SI.ptr, SI.size, contextEnabled, 0)
  ELSE IF SI.op = "memset"
  THEN IF ~SI.lenValid THEN A
       ELSE markGoodBytes(A, c, b, SI.ptr, SI.size, contextEnabled, 0)
  ELSE IF SI.op = "memcpy"
  THEN walkCopyInst(A, c, b, SI.dst, SI.ptr, SI, contextEnabled)
  ELSE IF SI.op = "readfile"
  THEN markGoodBytes(A, c, b, SI.ptr, SI.size, contextEnabled, 0)
  ELSE IF SI.op = "realloc"
  THEN markGoodBytes(walkCopyInst(A, c, b, SI.dst, SI.ptr, SI, contextEnabled),
                     c, b, SI.dst, ObjSize, contextEnabled, 0)
  ELSE IF SI.op = "malloc"
  THEN markGoodBytes(A, c, b, SI.dst, ObjSize, contextEnabled, 0)
  ELSE IF SI.op = "special"
  THEN A
  ELSE IF SI.yields
  THEN IF SI.pess THEN A
       ELSE IF SI.dom # {} THEN clobberDomain(A, c, b, SI.dom)
       ELSE markAllObjectsTentative(A, c, b)
  ELSE A

(***************************************************************************)
(* TLMerger: merging the stores of the live incoming edges                 *)
(***************************************************************************)
\* the store T after the store X of another edge was merged into it: per
\* object the intersection of the safe bytes, an object without a map being
\* wholly unsafe in a store with allOthersClobbered and wholly safe otherwise
mergeStoreInto(T, X) ==
  [T EXCEPT
     !.allOthersClobbered = T.allOthersClobbered \/ X.allOthersClobbered,
     !.m = MapTable(Objs, [o \in Objs |->
              IF T.m[o] # NoEntry /\ X.m[o] # NoEntry THEN mergeStores(X.m[o], T.m[o])
              ELSE IF T.m[o] # NoEntry
                   THEN (IF X.allOthersClobbered THEN EmptyMap ELSE T.m[o])
              ELSE IF X.m[o] # NoEntry
                   THEN (IF T.allOthersClobbered THEN NoEntry ELSE X.m[o])
              ELSE NoEntry])]

\* doMerge: the first incoming store is the target; each further one is merged
\* into a writable version of it and loses the reference its edge held
\* the merged store M replaces the target acc in place when the target has one
\* holder, else it becomes a new store that is the target from then on
mergedInto(B, acc, X, M) ==
  IF B.stores[acc].refCount = 1
  THEN [A |-> dropReference([B EXCEPT !.stores[acc] = M], X), id |-> acc]
  ELSE [A |-> dropReference(AllocStore([B EXCEPT !.stores[acc].refCount = @ - 1],
                                       [M EXCEPT !.refCount = 1]), X),
        id |-> Len(B.stores) + 1]

\* one incoming store X against the target acc
mergeOne(B, acc, X) ==
  IF X = acc THEN [A |-> dropReference(B, X), id |-> acc]
  ELSE mergedInto(B, acc, X, mergeStoreInto(B.stores[acc], B.stores[X]))

RECURSIVE doMergeFrom(_, _, _, _)
RECURSIVE doMergeRest(_, _, _)
doMergeFrom(A, acc, inc, k) ==
  IF k > Len(inc) THEN [A |-> A, id |-> acc]
  ELSE doMergeRest(mergeOne(Use(Use(A, acc), inc[k]), acc, inc[k]), inc, k + 1)

doMergeRest(r, inc, k) == doMergeFrom(r.A, r.id, inc, k)

doMerge(A, inc) ==
  IF inc = << >> THEN [A |-> A, id |-> 0]
  ELSE doMergeFrom(Use(A, inc[1]), inc[1], inc, 2)

\* is the edge p -> b live in context c
edgeAlive(c, p, b) ==
  /\ getBB(c, p)
  /\ \E i \in 1 .. Len(getBBInvar(c, p).succIdxs) :
       getBBInvar(c, p).succIdxs[i] = b /\ Ctx(c).succsAlive[p][i]

\* the set S of <<context, block>> as a sequence in increasing order
RECURSIVE SortedPairs(_)
SortedPairs(S) ==
  IF S = {} THEN << >>
  ELSE LET x == CHOOSE a \in S : \A y \in S :
                  a[1] < y[1] \/ (a[1] = y[1] /\ a[2] <= y[2])
       IN << x >> \o SortedPairs(S \ {x})

\* visitNormalPredecessorsBW: the blocks at the source of each live edge into
\* block b of context c; a predecessor inside a terminated peeled loop that b
\* is outside of stands for that block in every iteration
NormalPredecessors(c, b) ==
  LET F == invarInfo(c)
      preds == { p \in 0 .. (F.nBlocks - 1) :
                   \E i \in 1 .. Len(F.blocks[p].succIdxs) : F.blocks[p].succIdxs[i] = b }
      inPeeled(p) ==
        /\ F.blocks[p].naturalScope # NoLoop
        /\ ~LoopContains(c, F.blocks[p].naturalScope, F.blocks[b].naturalScope)
        /\ hasPeelAttempt(c, F.blocks[p].naturalScope)
        /\ getPeelAttempt(c, F.blocks[p].naturalScope).terminated
      iters(p) == getPeelAttempt(c, F.blocks[p].naturalScope).Iterations
  IN SortedPairs(
       { <<c, p>> : p \in { q \in preds : ~inPeeled(q) /\ edgeAlive(c, q, b) } }
         \cup UNION { { <<iters(p)[k], p>> :
                          k \in { h \in 1 .. Len(iters(p)) : edgeAlive(iters(p)[h], p, b) } } :
                      p \in { q \in preds : inPeeled(q) } })

\* visitLiveReturnBlocks: the created blocks of IA that end in a return
LiveReturnBlocks(IA) ==
  SortedPairs({ <<IA, r>> : r \in { q \in Ctx(IA).created : getBBInvar(IA, q).isRet } })

\* the stores of the visited blocks, those without a store left out
RECURSIVE IncomingStores(_, _)
IncomingStores(A, blocks) ==
  IF blocks = << >> THEN << >>
  ELSE (IF A.tlStore[blocks[1]] = 0 THEN << >> ELSE << A.tlStore[blocks[1]] >>)
         \o IncomingStores(A, Tail(blocks))

\* block b takes the merged store
setMergedStore(r, c, b) == SetTL(r.A, c, b, r.id)

doTLStoreMerge(A, c, b) ==
  setMergedStore(doMerge(A, IncomingStores(A, NormalPredecessors(c, b))), c, b)

doTLCallMerge(A, c, b, IA) ==
  setMergedStore(doMerge(A, IncomingStores(A, LiveReturnBlocks(IA))), c, b)

(***************************************************************************)
(* Path conditions: walkPathCondition, walkPathConditions,                 *)
(* walkPathConditionsIn, TLWalkPathConditions                              *)
(***************************************************************************)
RECURSIVE findTentativeLoads(_, _, _, _)
RECURSIVE walkPathFuncs(_, _, _, _, _, _, _)

\* the walk works on a state that has been computed: the count of runs of a
\* computed state is a natural number
Computed(A) == A.hist.runs >= 0

walkPathCondition(A, c, b, Cond, contextEnabled) ==
  markGoodBytes(A, c, b, Cond.sv, Cond.len, contextEnabled, Cond.offset)

walkPathConditions(A, c, b, Conds, k, contextEnabled, stackDepth) ==
  IF k > Len(Conds) THEN A
  ELSE walkPathConditions(
         IF stackDepth # Conds[k].fromStackIdx \/ <<Ctx(c).F, b>> # Conds[k].fromBB
         THEN A
         ELSE walkPathCondition(A, c, b, Conds[k], contextEnabled),
         c, b, Conds, k + 1, contextEnabled, stackDepth)

\* the loop over the path condition functions: each one given for stackIdx
\* is walked from the block's store as committed code, and the stores of its
\* returns are merged into the block
walkPathFuncs(A, c, b, Funcs, k, stackIdx, secondPass) ==
  IF (~Computed(A)) \/ k > Len(Funcs) THEN A
  ELSE walkPathFuncs(
         IF Funcs[k].stackIdx # stackIdx THEN A
         ELSE doTLCallMerge(
                findTentativeLoads(SetTL(A, Funcs[k].IA, 0, TL(A, c, b)), Funcs[k].IA,
                                   FALSE, secondPass),
                c, b, Funcs[k].IA),
         c, b, Funcs, k + 1, stackIdx, secondPass)

walkPathConditionsIn(A, c, b, PC, stackIdx, contextEnabled, secondPass) ==
  walkPathFuncs(
    walkPathConditions(
      walkPathConditions(A, c, b, PC.IntmemPathConditions, 1, contextEnabled, stackIdx),
      c, b, PC.StringPathConditions, 1, contextEnabled, stackIdx),
    c, b, PC.FuncPathConditions, 1, stackIdx, secondPass)

TLWalkPathConditions(A, c, b, contextEnabled, secondPass) ==
  walkPathConditionsIn(
    IF targetStackDepth(getFunctionRoot(c)) # -1
    THEN walkPathConditionsIn(A, c, b, prog.pathConditions,
                              targetStackDepth(getFunctionRoot(c)), contextEnabled, secondPass)
    ELSE A,
    c, b, invarInfo(c).pathConditions, UINT_MAX, contextEnabled, secondPass)

\* the conditions of PC for stack index stackIdx attached to block b of context c
CondsAt(c, b, PC, stackIdx) ==
  { Cond \in { PC.IntmemPathConditions[k] : k \in 1 .. Len(PC.IntmemPathConditions) }
              \cup { PC.StringPathConditions[k] : k \in 1 .. Len(PC.StringPathConditions) } :
      Cond.fromStackIdx = stackIdx /\ Cond.fromBB = <<Ctx(c).F, b>> }

\* the path conditions TLWalkPathConditions walks for block b of context c
MatchingConds(c, b) ==
  CondsAt(c, b, invarInfo(c).pathConditions, UINT_MAX)
    \cup (IF targetStackDepth(getFunctionRoot(c)) # -1
          THEN CondsAt(c, b, prog.pathConditions, targetStackDepth(getFunctionRoot(c)))
          ELSE {})

(***************************************************************************)
(* The walk: TLAnalyseInstruction, findTentativeLoads,                     *)
(* findTentativeLoadsInLoop, findTentativeLoadsInUnboundedLoop             *)
(***************************************************************************)
\* a load, or ShadowInstruction::isCopyInst: a memory transfer or a realloc call
isLoadOrCopy(SI) == SI.op \in {"load", "memcpy", "realloc"}

\* the store of block b as shouldCheckLoad reads it (a null store reads as empty)
ReadStoreOf(A, c, b) ==
  IF TL(A, c, b) = 0 THEN NewStoreRec ELSE A.stores[TL(A, c, b)]

\* TLAnalyseInstruction that classifies again in a second pass
TLAnalyseInstructionReclassify(A, c, b, j, commitDisabledHere, secondPass) ==
  IF A.isThreadLocal[<<c, b, j>>] = TLS_NEVERCHECK THEN A
  ELSE updateTLStore(
         IF isLoadOrCopy(getBBInvar(c, b).insts[j])
         THEN [A EXCEPT !.isThreadLocal[<<c, b, j>>] =
                 shouldCheckLoad(getBBInvar(c, b).insts[j], ReadStoreOf(A, c, b),
                                 prog.programSingleThreaded)]
         ELSE A,
         c, b, getBBInvar(c, b).insts[j], ~commitDisabledHere)

\* variant: the classification is recorded without the context's flag
setThreadLocalOnly(A, c, b, j, t) ==
  [A EXCEPT !.isThreadLocal[<<c, b, j>>] = t]

\* the load's classification t is recorded
setThreadLocal(A, c, b, j, t) ==
  [A EXCEPT !.isThreadLocal[<<c, b, j>>] = t,
            !.readsTentativeData[c] = @ \/ (t = TLS_MUSTCHECK)]

TLAnalyseInstruction(A, c, b, j, commitDisabledHere, secondPass) ==
  LET SI == getBBInvar(c, b).insts[j]
      old == A.isThreadLocal[<<c, b, j>>]
  IN IF old = TLS_NEVERCHECK THEN A
     ELSE IF isLoadOrCopy(SI) /\ secondPass /\ old = TLS_MUSTCHECK THEN A
     ELSE updateTLStore(
            IF isLoadOrCopy(SI)
            THEN setThreadLocal(Use(A, TL(A, c, b)), c, b, j,
                                shouldCheckLoad(SI, ReadStoreOf(A, c, b),
                                                prog.programSingleThreaded))
            ELSE A,
            c, b, SI, ~commitDisabledHere)

\* what a store holds, apart from its reference count
StoreContent(rec) ==
  [m |-> rec.m, allOthersClobbered |-> rec.allOthersClobbered, frames |-> rec.frames]

\* the known-safe bytes of object V in the store S: those of its map, and
\* without a map every byte unless all-clobbered is set
SafeSet(S, V) ==
  IF S.m[V] = NoEntry THEN (IF S.allOthersClobbered THEN {} ELSE Bytes)
  ELSE MapBytes(S.m[V])

\* the bytes [Offset, Offset + Length) of object V that the operand p names
OperandBytes(p, Length, V) ==
  IF hasUniqueIV(p) /\ p.setType = "PB" /\ p.vals[1].V = V
  THEN { x \in Bytes : p.vals[1].Offset <= x /\ x < p.vals[1].Offset + Length }
  ELSE {}

\* the bytes of object V in the ranges that instruction SI of context c touches
TouchedBytes(c, SI, V) ==
  IF SI.op = "alloca"
  THEN (IF V = StackBase + getFunctionRoot(c) THEN { x \in Bytes : x < ObjSize } ELSE {})
  ELSE IF SI.op \in {"load", "store", "memset", "readfile"}
  THEN OperandBytes(SI.ptr, SI.size, V)
  ELSE IF SI.op = "memcpy"
  THEN OperandBytes(SI.ptr, SI.size, V) \cup OperandBytes(SI.dst, SI.size, V)
  ELSE IF SI.op = "realloc"
  THEN OperandBytes(SI.ptr, SI.size, V) \cup OperandBytes(SI.dst, SI.size, V)
         \cup OperandBytes(SI.dst, ObjSize, V)
  ELSE IF SI.op = "malloc"
  THEN OperandBytes(SI.dst, ObjSize, V)
  ELSE {}

\* an ordinary sequential instruction: not a yield point, not a call that is
\* walked into
isOrdinary(SI) ==
  \/ SI.op \in {"alloca", "store", "memset", "memcpy", "readfile", "malloc", "realloc"}
  \/ SI.op = "load" /\ ~(SI.volatile /\ ~prog.programSingleThreaded)

\* a volatile load that updateTLStore treats as a yield point
isVolatileYield(SI) == SI.op = "load" /\ SI.volatile /\ ~prog.programSingleThreaded

\* a call that reaches the yield test of updateTLStore and passes it
isYieldCall(SI) == SI.op = "yield" /\ SI.yields

\* the store SB is the store SA with nothing but bytes of the ranges SI
\* touches added: no safe byte lost, the flag and every other entry as before
OnlyAdds(c, SI, SA, SB) ==
  /\ SB.allOthersClobbered = SA.allOthersClobbered
  /\ SB.frames = SA.frames
  /\ \A V \in Objs :
       /\ SafeSet(SA, V) \subseteq SafeSet(SB, V)
       /\ SafeSet(SB, V) \ SafeSet(SA, V) \subseteq TouchedBytes(c, SI, V)
       /\ TouchedBytes(c, SI, V) = {} => SB.m[V] = SA.m[V]

\* the store SB is the store SA clobbered as the registered scope of the
\* yield call SI says
YieldScoped(SI, SA, SB) ==
  IF SI.pess THEN SB = SA
  ELSE IF SI.dom # {}
  THEN /\ SB.allOthersClobbered = SA.allOthersClobbered
       /\ SB.frames = SA.frames
       /\ \A V \in Objs : SafeSet(SB, V) = (IF V \in SI.dom THEN {} ELSE SafeSet(SA, V))
  ELSE /\ SB.allOthersClobbered
       /\ SB.frames = SA.frames
       /\ \A V \in Objs : SB.m[V] = NoEntry

\* a store of A that has more than one holder is changed in B
SharedStoreWritten(A, B) ==
  \E sid \in 1 .. Len(A.stores) :
    /\ A.stores[sid].live
    /\ A.stores[sid].refCount > 1
    /\ StoreContent(B.stores[sid]) # StoreContent(A.stores[sid])

\* history of a write through block b (an instruction, a frame push or pop):
\* B is the state after the write made in state A
noteWrite(A, B, c, b) ==
  IF TL(A, c, b) = 0 THEN B
  ELSE [B EXCEPT
    !.hist.violated = @ \cup (IF SharedStoreWritten(A, B) THEN {"shared"} ELSE {}),
    !.hist.seen = @ \cup (IF A.stores[TL(A, c, b)].refCount > 1 /\ TL(B, c, b) # TL(A, c, b)
                          THEN {"copied"} ELSE {})
                    \cup (IF A.stores[TL(A, c, b)].refCount = 1
                             /\ StoreContent(B.stores[TL(A, c, b)])
                                  # StoreContent(A.stores[TL(A, c, b)])
                          THEN {"inPlace"} ELSE {})]

\* what the visit of instruction SI did wrong: SA and SB are the stores of its
\* block before and after TLAnalyseInstruction
InstViolations(c, SI, SA, SB, commitDisabledHere) ==
  (IF isOrdinary(SI) /\ ~OnlyAdds(c, SI, SA, SB) THEN {"ordinary"} ELSE {})
    \cup (IF isYieldCall(SI) /\ ~YieldScoped(SI, SA, SB) THEN {"yieldScope"} ELSE {})
    \cup (IF isOrdinary(SI) /\ commitDisabledHere /\ StoreContent(SB) # StoreContent(SA)
          THEN {"disabled"} ELSE {})
    \cup (IF isVolatileYield(SI) /\ ~(SB.allOthersClobbered /\ SB.m = NoEntries)
          THEN {"volatile"} ELSE {})
    \cup (IF SI.yields /\ SI.op \in {"readfile", "malloc", "realloc"}
               /\ ~OnlyAdds(c, SI, SA, SB)
          THEN {"registered"} ELSE {})
    \cup (IF SI.yields /\ SI.op = "special" /\ SB # SA THEN {"registered"} ELSE {})

\* what the visit of instruction SI showed
InstEvents(c, SI, SA, SB, commitDisabledHere, secondPass) ==
  (IF isOrdinary(SI) /\ SB.m # SA.m THEN {"ordinaryAdded"} ELSE {})
    \cup (IF isOrdinary(SI) /\ SI.yields THEN {"registeredOrdinary"} ELSE {})
    \cup (IF SI.op = "special" /\ SI.yields THEN {"registeredSpecial"} ELSE {})
    \cup (IF isYieldCall(SI) /\ SI.pess /\ SA.allOthersClobbered THEN {"pessimistic"} ELSE {})
    \cup (IF isYieldCall(SI) /\ SI.dom # {} /\ SB.m # SA.m THEN {"lockDomain"} ELSE {})
    \cup (IF isYieldCall(SI) /\ SI.dom = {} /\ ~SI.pess /\ SB # SA THEN {"clobberAll"} ELSE {})
    \cup (IF isOrdinary(SI) /\ commitDisabledHere /\ SA.allOthersClobbered
          THEN {"disabledWalked"} ELSE {})
    \cup (IF isVolatileYield(SI) /\ secondPass THEN {"volatileSecondPass"} ELSE {})
    \cup (IF isVolatileYield(SI) /\ SA.m # NoEntries THEN {"volatileClobbered"} ELSE {})

\* history of the visit of instruction j of block b
noteInst(A, B, c, b, j, commitDisabledHere, secondPass) ==
  IF TL(A, c, b) = 0 \/ TL(B, c, b) = 0 THEN B
  ELSE noteWrite(A,
         [B EXCEPT
            !.hist.violated =
               @ \cup InstViolations(c, getBBInvar(c, b).insts[j], A.stores[TL(A, c, b)],
                                     B.stores[TL(B, c, b)], commitDisabledHere),
            !.hist.seen =
               @ \cup InstEvents(c, getBBInvar(c, b).insts[j], A.stores[TL(A, c, b)],
                                 B.stores[TL(B, c, b)], commitDisabledHere, secondPass)],
         c, b)

\* history of the frames: the function root of context c pushed or did not
\* push a frame when it was entered (B is the state after the entry made in
\* state A), popped or did not pop one at the end of block b
noteEntry(A, B, c) ==
  [B EXCEPT !.hist.frames =
     @ \cup { <<IF Len(ReadStoreOf(B, c, 0).frames) > Len(ReadStoreOf(A, c, 0).frames)
                THEN "push" ELSE "enter", c>> }]

noteExit(A, B, c, b) ==
  IF Len(getBBInvar(c, b).succIdxs) # 0 THEN B
  ELSE [B EXCEPT !.hist.frames =
          @ \cup { <<IF Len(ReadStoreOf(B, c, b).frames) < Len(ReadStoreOf(A, c, b).frames)
                     THEN "pop" ELSE "exit", getFunctionRoot(c)>> }]

\* history of the start of block b: it has no store when its path conditions
\* and instructions are about to be analysed
noteStart(B, c, b) ==
  IF TL(B, c, b) = 0 THEN [B EXCEPT !.hist.violated = @ \cup {"absentStart"}] ELSE B

\* history of a call that left its block without a store: the callee IA had
\* a live return block all the same
noteBroke(E, IA) ==
  [E EXCEPT !.hist.seen = @ \cup {"broke"},
            !.hist.violated = @ \cup (IF LiveReturnBlocks(IA) # << >> THEN {"brokeWithReturn"}
                                      ELSE {})]

\* successorRefs with the two skipped kinds of edge exchanged between the passes
successorRefsSwapped(c, b, L, latchToHeader) ==
  LET BBI == getBBInvar(c, b)
      skipped(i) ==
        /\ L # NoLoop
        /\ L # Ctx(c).L
        /\ \/ (~latchToHeader)
              /\ ~LoopContains(c, L, getBBInvar(c, BBI.succIdxs[i]).naturalScope)
           \/ latchToHeader /\ BBI.succIdxs[i] = LInfo(c, L).headerIdx
  IN Cardinality({ i \in 1 .. Len(BBI.succIdxs) : Ctx(c).succsAlive[b][i] /\ ~skipped(i) })

\* the number of live successor edges of block b that get a store reference
\* when the walk is over loop L of context c
successorRefs(c, b, L, latchToHeader) ==
  LET BBI == getBBInvar(c, b)
      skipped(i) ==
        /\ L # NoLoop
        /\ L # Ctx(c).L
        /\ \/ latchToHeader /\ ~LoopContains(c, L, getBBInvar(c, BBI.succIdxs[i]).naturalScope)
           \/ (~latchToHeader) /\ BBI.succIdxs[i] = LInfo(c, L).headerIdx
  IN Cardinality({ i \in 1 .. Len(BBI.succIdxs) : Ctx(c).succsAlive[b][i] /\ ~skipped(i) })

\* the end of a block's walk: references for the successors, the frame pop of
\* a block without successors, the drop of the block's own reference
finishBlockKeepRef(A, c, b, L, latchToHeader, brokeOnUnreachableCall) ==
  IF TL(A, c, b) = 0
  THEN [A EXCEPT !.hist.assertFailed = @ \/ ~brokeOnUnreachableCall]
  ELSE LET sid == TL(A, c, b)
       IN [Use(A, sid) EXCEPT
             !.stores[sid].refCount = @ + successorRefs(c, b, L, latchToHeader)]

\* a block without successors pops its function's stack frame
popAtExit(B, c, b) ==
  IF Len(getBBInvar(c, b).succIdxs) = 0 /\ invarInfo(c).frameSize # -1
  THEN popStackFrame(getWritableFrameList(B, c, b), c, b)
  ELSE B

\* popAtExit with its history
notedPopAtExit(B, c, b) == noteExit(B, noteWrite(B, popAtExit(B, c, b), c, b), c, b)

\* a block that does not return drops its own reference
dropOwnReference(C, c, b) ==
  IF getBBInvar(c, b).isRet THEN C ELSE dropReference(C, TL(C, c, b))

finishBlock(A, c, b, L, latchToHeader, brokeOnUnreachableCall) ==
  IF TL(A, c, b) = 0
  THEN [A EXCEPT !.hist.assertFailed = @ \/ ~brokeOnUnreachableCall]
  ELSE dropOwnReference(
         notedPopAtExit([Use(A, TL(A, c, b)) EXCEPT
                      !.stores[TL(A, c, b)].refCount =
                         @ + successorRefs(c, b, L, latchToHeader)],
                   c, b),
         c, b)

\* the end of the walk of a block whose instruction loop gave r
finishWalked(r, c, b, L, latchToHeader) == finishBlock(r.A, c, b, L, latchToHeader, r.broke)

\* the first block index from i on that is outside loop NL (or the end)
RECURSIVE skipLoop(_, _, _, _)
skipLoop(c, NL, i, ilim) ==
  IF i # ilim /\ LoopContains(c, NL, getBBInvar(c, i).naturalScope)
  THEN skipLoop(c, NL, i + 1, ilim)
  ELSE i

RECURSIVE findTentativeLoadsInLoop(_, _, _, _, _, _)
RECURSIVE findTentativeLoadsInUnboundedLoop(_, _, _, _, _)
RECURSIVE walkBlocks(_, _, _, _, _, _, _)
RECURSIVE walkInsts(_, _, _, _, _, _)
RECURSIVE walkIterations(_, _, _, _, _, _)
RECURSIVE afterInst(_, _, _, _, _, _)
RECURSIVE afterCall(_, _, _, _, _, _)
RECURSIVE nextIteration(_, _, _, _, _, _)
RECURSIVE unboundedLoopPasses(_, _, _, _, _)
RECURSIVE secondPassFrom(_, _, _, _, _)
RECURSIVE thirdPassFlags(_, _, _, _)

\* history of the second pass: B is the state TLAnalyseInstruction returned for
\* the state A.  downgraded: a load or copy that was must-check on entry is
\* not on return; secondPassKept: it was must-check on entry although the
\* store of the second pass alone would not make it so
noteSecondPass(A, B, c, b, j, secondPass) ==
  IF secondPass /\ isLoadOrCopy(getBBInvar(c, b).insts[j])
       /\ A.isThreadLocal[<<c, b, j>>] = TLS_MUSTCHECK
  THEN [B EXCEPT
          !.hist.downgraded = @ \/ (B.isThreadLocal[<<c, b, j>>] # TLS_MUSTCHECK),
          !.hist.secondPassKept =
             @ \/ (shouldCheckLoad(getBBInvar(c, b).insts[j], ReadStoreOf(A, c, b),
                                   prog.programSingleThreaded) # TLS_MUSTCHECK)]
  ELSE B

\* the instruction loop of a block, from instruction j; broke: it stopped at a
\* call whose exit is unreachable
walkInsts(A, c, b, j, commitDisabledHere, secondPass) ==
  IF (~Computed(A)) \/ j > Len(getBBInvar(c, b).insts) THEN [A |-> A, broke |-> FALSE]
  ELSE afterInst(
         noteInst(A,
                  noteSecondPass(A, TLAnalyseInstruction(A, c, b, j, commitDisabledHere,
                                                         secondPass),
                                 c, b, j, secondPass),
                  c, b, j, commitDisabledHere, secondPass),
         c, b, j, commitDisabledHere, secondPass)

\* IA->backupTlStore: the copy of the calling block's store that is backed up
\* on entry to the context IA
backupOnEntry(B, c, b, IA) ==
  [B EXCEPT !.hist.backupTlStore = (IA :> StoreContent(ReadStoreOf(B, c, b))) @@ @]

\* after instruction j was analysed: a call with a callee context has the
\* callee walked from the caller's store and the stores of its returns merged
afterInst(B, c, b, j, commitDisabledHere, secondPass) ==
  LET IA == getInlineAttempt(c, b, j)
  IN IF Computed(B) /\ getBBInvar(c, b).insts[j].op = "call" /\ IA # 0
     THEN afterCall(
            doTLCallMerge(
              findTentativeLoads(SetTL(backupOnEntry(B, c, b, IA), IA, 0, TL(B, c, b)), IA,
                                 commitDisabledHere \/ ~Ctx(IA).enabled, secondPass),
              c, b, IA),
            c, b, j, commitDisabledHere, secondPass)
     ELSE walkInsts(B, c, b, j + 1, commitDisabledHere, secondPass)

\* variant: the instruction loop goes on after a call that left no store
afterCallContinue(E, c, b, j, commitDisabledHere, secondPass) ==
  walkInsts(E, c, b, j + 1, commitDisabledHere, secondPass)

\* no store after the call: the call's exit is unreachable and the block ends
afterCall(E, c, b, j, commitDisabledHere, secondPass) ==
  IF TL(E, c, b) = 0 THEN [A |-> noteBroke(E, getInlineAttempt(c, b, j)), broke |-> TRUE]
  ELSE walkInsts(E, c, b, j + 1, commitDisabledHere, secondPass)

\* the iterations of a terminated peel attempt, from iteration j on
walkIterations(A, LPA, j, latchIdx, commitDisabled, secondPass) ==
  IF (~Computed(A)) \/ j > Len(LPA.Iterations) THEN A
  ELSE nextIteration(
         findTentativeLoadsInLoop(A, LPA.Iterations[j], LPA.L, commitDisabled, secondPass,
                                  FALSE),
         LPA, j, latchIdx, commitDisabled, secondPass)

\* the next iteration's header takes the store of iteration j's latch
nextIteration(B, LPA, j, latchIdx, commitDisabled, secondPass) ==
  IF j + 1 <= Len(LPA.Iterations)
  THEN LET it == LPA.Iterations[j]
           nx == LPA.Iterations[j + 1]
       IN walkIterations(IF getBB(it, latchIdx)
                         THEN SetTL(B, nx, Ctx(nx).BBsOffset, TL(B, it, latchIdx))
                         ELSE [B EXCEPT !.hist.nullDeref = TRUE],
                         LPA, j + 1, latchIdx, commitDisabled, secondPass)
  ELSE B

\* history of the path conditions of block b: does the store B right after
\* the conditions hold each asserted range as known-safe
notePathConds(B, c, b) ==
  IF MatchingConds(c, b) = {} THEN B
  ELSE [B EXCEPT
    !.hist.pathCondUnsafe =
      @ \/ (\E Cond \in MatchingConds(c, b) :
               shouldCheckRead(IVal(Cond.sv.vals[1].V, Cond.sv.vals[1].Offset + Cond.offset),
                               Cond.len, ReadStoreOf(B, c, b)))]

\* the path conditions of block b are walked before its instructions
walkBlockBody(B, c, b, commitDisabledHere, secondPass) ==
  walkInsts(
    notePathConds(TLWalkPathConditions(noteStart(B, c, b), c, b, ~commitDisabledHere,
                                       secondPass),
                  c, b),
    c, b, 1, commitDisabledHere, secondPass)

\* the block loop of findTentativeLoadsInLoop, from block i on
walkBlocks(A, c, L, commitDisabledHere, secondPass, latchToHeader, i) ==
  LET ilim == Ctx(c).nBBs + Ctx(c).BBsOffset
      startIdx == IF L # NoLoop THEN LInfo(c, L).headerIdx ELSE 0
  IN IF (~Computed(A)) \/ i = ilim
          \/ (L # NoLoop /\ ~LoopContains(c, L, getBBInvar(c, i).naturalScope))
     THEN A
     ELSE IF ~getBB(c, i)
     THEN walkBlocks(A, c, L, commitDisabledHere, secondPass, latchToHeader, i + 1)
     ELSE IF getBBInvar(c, i).naturalScope # L
     THEN LET NL == getBBInvar(c, i).naturalScope
              NewLInfo == LInfo(c, NL)
              B == IF hasPeelAttempt(c, NL) /\ getPeelAttempt(c, NL).terminated
                   THEN LET LPA == getPeelAttempt(c, NL)
                            it0 == LPA.Iterations[1]
                        IN walkIterations(
                             SetTL(A, it0, Ctx(it0).BBsOffset, TL(A, c, NewLInfo.preheaderIdx)),
                             LPA, 1, NewLInfo.latchIdx,
                             commitDisabledHere \/ ~LPA.enabled, secondPass)
                   ELSE findTentativeLoadsInUnboundedLoop(A, c, NL,
                          commitDisabledHere
                            \/ (hasPeelAttempt(c, NL) /\ ~getPeelAttempt(c, NL).enabled),
                          secondPass)
          IN walkBlocks(B, c, L, commitDisabledHere, secondPass, latchToHeader,
                        skipLoop(c, NL, i, ilim))
     ELSE walkBlocks(
            finishWalked(
              walkBlockBody(IF i # startIdx THEN doTLStoreMerge(A, c, i) ELSE A,
                            c, i, commitDisabledHere, secondPass),
              c, i, L, latchToHeader),
            c, L, commitDisabledHere, secondPass, latchToHeader, i + 1)

findTentativeLoadsInLoop(A, c, L, commitDisabledHere, secondPass, latchToHeader) ==
  IF tentativeLoadsRun[c] THEN A
  ELSE walkBlocks(A, c, L, commitDisabledHere, secondPass, latchToHeader,
                  IF L # NoLoop THEN LInfo(c, L).headerIdx ELSE 0)

findTentativeLoadsInUnboundedLoop(A, c, UL, commitDisabledHere, secondPass) ==
  unboundedLoopPasses(
    SetTL(A, c, LInfo(c, UL).headerIdx, TL(A, c, LInfo(c, UL).preheaderIdx)),
    c, UL, commitDisabledHere, secondPass)

\* the header takes the latch's store at the end of the first pass
latchStoreToHeader(P1, c, UL) ==
  SetTL(P1, c, LInfo(c, UL).headerIdx, TL(P1, c, LInfo(c, UL).latchIdx))

\* the flags one more pass would give: the second pass from H handing the
\* latch's store to the header again, then a pass from that store
thirdPassFlags(H, c, UL, commitDisabledHere) ==
  findTentativeLoadsInLoop(
    latchStoreToHeader(findTentativeLoadsInLoop(H, c, UL, commitDisabledHere, TRUE, TRUE),
                       c, UL),
    c, UL, commitDisabledHere, TRUE, FALSE).isThreadLocal

\* history of a loop walked in two passes: do the flags R of the second pass
\* from H differ from those of one more pass
noteThirdPass(R, flags) ==
  [R EXCEPT !.hist.twoPasses = TRUE,
            !.hist.thirdPassDiffers = @ \/ (flags # R.isThreadLocal),
            !.hist.thirdPassClears =
              @ \/ (\E k \in DOMAIN flags :
                       R.isThreadLocal[k] = TLS_MUSTCHECK /\ flags[k] # TLS_MUSTCHECK)]

\* variant: the loop is left as the first pass left it
secondPassFromSkipped(H, c, UL, commitDisabledHere, first) ==
  IF first THEN noteThirdPass(H, H.isThreadLocal) ELSE H

\* the second pass, from the state H in which the header holds its store
secondPassFrom(H, c, UL, commitDisabledHere, first) ==
  IF first
  THEN noteThirdPass(findTentativeLoadsInLoop(H, c, UL, commitDisabledHere, TRUE, FALSE),
                     thirdPassFlags(H, c, UL, commitDisabledHere))
  ELSE findTentativeLoadsInLoop(H, c, UL, commitDisabledHere, TRUE, FALSE)

\* a loop whose latch edge is live and that is not yet in a second pass is
\* walked twice, else once
unboundedLoopPasses(B, c, UL, commitDisabledHere, secondPass) ==
  IF edgeAlive(c, LInfo(c, UL).latchIdx, LInfo(c, UL).headerIdx)
  THEN secondPassFrom(
         IF ~secondPass
         THEN latchStoreToHeader(
                findTentativeLoadsInLoop(B, c, UL, commitDisabledHere, FALSE, TRUE), c, UL)
         ELSE B,
         c, UL, commitDisabledHere, ~secondPass)
  ELSE findTentativeLoadsInLoop(B, c, UL, commitDisabledHere, secondPass, FALSE)

\* InlineAttempt::findTentativeLoads
\* a function with a stack frame (or without callers) pushes its frame
pushFrameAtEntry(B, c) ==
  IF invarInfo(c).frameSize # -1 \/ ~Ctx(c).hasCallers
  THEN pushStackFrame(getWritableFrameList(B, c, 0), c, 0, c)
  ELSE B

\* pushFrameAtEntry with its history
notedPushFrameAtEntry(B, c) == noteEntry(B, noteWrite(B, pushFrameAtEntry(B, c), c, 0), c)

findTentativeLoads(A, c, commitDisabledHere, secondPass) ==
  findTentativeLoadsInLoop(
    notedPushFrameAtEntry(IF Ctx(c).isRootMain THEN TakeNewStore(A, c, 0, NewStoreRec) ELSE A,
                          c),
    c, NoLoop, commitDisabledHere, secondPass, FALSE)

\* IntegrationAttempt::resetTentativeLoads: the contexts whose flag it clears
RECURSIVE resetSet(_)
resetSet(c) ==
  {c} \cup UNION { resetSet(t[3]) : t \in Ctx(c).inlineChildren }
      \cup UNION { UNION { resetSet(pa.Iterations[k]) : k \in 1 .. Len(pa.Iterations) } :
                   pa \in { q \in Ctx(c).peelChildren : q.terminated } }

(***************************************************************************)
(* SpecMerge                                                               *)
(***************************************************************************)
NoMerge == [from |-> EmptyMap, to |-> EmptyMap, fromAfter |-> EmptyMap,
            toAfter |-> EmptyMap, keep |-> << >>, done |-> FALSE]

ReadIdle == [used |-> FALSE]

NoProg == [fns |-> << >>, ctx |-> << >>, programSingleThreaded |-> FALSE,
     pathConditions |-> NoPathConditions, targetStack |-> << >>]

NoHist == [runs |-> 0, nullDeref |-> FALSE, useAfterFree |-> FALSE,
           negativeCount |-> FALSE, popEmpty |-> FALSE, assertFailed |-> FALSE,
           first |-> << >>, before |-> << >>, lastOp |-> "none", lastRun |-> "none",
           afterReset |-> FALSE, downgraded |-> FALSE, secondPassKept |-> FALSE,
           thirdPassDiffers |-> FALSE, thirdPassClears |-> FALSE, twoPasses |-> FALSE,
           pathCondUnsafe |-> FALSE, backupTlStore |-> << >>, rerun |-> << >>,
           violated |-> {}, seen |-> {}, frames |-> {}, counts |-> 0]

\* no HypotheticalConstantFolder is at work
NoFolder == [pc |-> "none"]

NoFun == [entry |-> 0]
NoInfo == [built |-> FALSE]
NoShadows == [prepared |-> FALSE]

ShadowIdle ==
  /\ fun = NoFun
  /\ functionInfo = NoInfo
  /\ shadows = NoShadows

WalkIdle ==
  /\ prog = NoProg
  /\ stores = << >>
  /\ tlStore = << >>
  /\ isThreadLocal = << >>
  /\ readsTentativeData = << >>
  /\ tentativeLoadsRun = << >>
  /\ yieldState = << >>
  /\ checked = << >>
  /\ hist = NoHist

\* a number for each map, to list the predecessors' maps in one order only
\* (the merge steps take them in every order)
MapCode(M) ==
  LET RECURSIVE code(_)
      code(x) == IF x >= MaxByte THEN 0
                 ELSE (IF x \in MapBytes(M) THEN 2 ^ x ELSE 0) + code(x + 1)
  IN code(0)

InitMerge ==
  /\ WalkIdle
  /\ ShadowIdle
  /\ mode = "merge"
  /\ hcf = NoFolder
  /\ maps \in { f \in [1 .. NPreds -> AllMaps] :
                  \A i \in 1 .. (NPreds - 1) : MapCode(f[i]) <= MapCode(f[i + 1]) }
  /\ alive = 1 .. NPreds
  /\ orig = maps
  /\ lastMerge = NoMerge
  /\ rd = ReadIdle
  /\ rdOut = "none"

\* one call mergeStores(&maps[i], &maps[j]): the map i of one predecessor is
\* merged into the map j, and its holder is done with it
MergeStep(i, j) ==
  /\ mode = "merge"
  /\ i \in alive /\ j \in alive /\ i # j
  /\ maps' = [maps EXCEPT ![j] = mergeStores(maps[i], maps[j])]
  /\ alive' = alive \ {i}
  /\ lastMerge' = [from |-> maps[i], to |-> maps[j], fromAfter |-> maps'[i],
                   toAfter |-> maps'[j], keep |-> keepRanges(maps[i], maps[j]),
                   done |-> TRUE]
  /\ UNCHANGED <<fun, functionInfo, shadows, mode, hcf, orig, rd, rdOut>>
  /\ UNCHANGED walkVars

NextMerge == \E i, j \in 1 .. NPreds : MergeStep(i, j)

SpecMerge == InitMerge /\ [][NextMerge]_vars

(***************************************************************************)
(* SpecRead                                                                *)
(***************************************************************************)
MergeIdle == [k \in 1 .. NPreds |-> EmptyMap]

\* the stores a block can hold, as far as a read can tell
ReadStores ==
  { [allOthersClobbered |-> f, m |-> (G1 :> a) @@ (G2 :> b) @@ (GC :> NoEntry)] :
      f \in BOOLEAN, a \in AllMaps \cup {NoEntry}, b \in {NoEntry, EmptyMap, MapOf(Bytes)} }

ReadTargets == { IVal(ObjNull, 0), IVal(GC, 0), IVal(G1, 0), IVal(G1, 1), IVal(G2, 0) }

ReadPtrs ==
  { PtrOp(iv, "PB", FALSE, << t >>) : iv \in BOOLEAN, t \in ReadTargets }
    \cup { PtrOp(TRUE, "PB", FALSE, << t, u >>) : t, u \in ReadTargets }
    \cup { PtrOp(TRUE, "PB", TRUE, << >>), PtrOp(TRUE, "Int", FALSE, << IVal(ObjNull, 0) >>),
           PtrOp(FALSE, "Int", FALSE, << IVal(ObjNull, 0) >>) }

ReadPBs(size) ==
  { PBSingle(u) : u \in BOOLEAN }
    \cup IF size = 2
         THEN { PBMulti(<< <<0, 1, u1>>, <<1, 2, u2>> >>) : u1, u2 \in BOOLEAN }
         ELSE {}

ReadLoads ==
  { [op |-> "load", ptr |-> p, size |-> n, pb |-> b] :
      p \in ReadPtrs, n \in {1}, b \in ReadPBs(1) }
    \cup { [op |-> "load", ptr |-> p, size |-> n, pb |-> b] :
      p \in ReadPtrs, n \in {2}, b \in ReadPBs(2) }

InitRead ==
  /\ WalkIdle
  /\ ShadowIdle
  /\ mode = "read"
  /\ hcf = NoFolder
  /\ rd \in { [used |-> TRUE, S |-> S, SI |-> SI, programSingleThreaded |-> t] :
               S \in ReadStores, SI \in ReadLoads, t \in BOOLEAN }
  /\ rdOut = "none"
  /\ maps = MergeIdle
  /\ alive = {}
  /\ orig = MergeIdle
  /\ lastMerge = NoMerge

\* IntegrationAttempt::shouldCheckLoad on a load instruction
ShouldCheckLoad ==
  /\ mode = "read"
  /\ rdOut = "none"
  /\ rdOut' = shouldCheckLoad(rd.SI, rd.S, rd.programSingleThreaded)
  /\ UNCHANGED <<fun, functionInfo, shadows, mode, hcf, rd, maps, alive, orig, lastMerge>>
  /\ UNCHANGED walkVars

NextRead == ShouldCheckLoad

SpecRead == InitRead /\ [][NextRead]_vars

\* a byte of an object is known-safe in a store
SafeByte(S, V, x) ==
  IF S.m[V] = NoEntry THEN ~S.allOthersClobbered ELSE x \in MapBytes(S.m[V])

\* the candidate targets of the pointer that are allocations which can change
ReadCandidates(SI) ==
  { SI.ptr.vals[i] : i \in IF SI.ptr.iv THEN 1 .. Len(SI.ptr.vals) ELSE {1} }
    \ { t \in ReadTargets : isNullOrConst(t.V) }

\* the bytes [0, size) of the load whose propagated value is not wholly unknown
KnownBytes(SI) ==
  IF SI.pb.kind = "multi"
  THEN { x \in 0 .. (SI.size - 1) :
           \E k \in 1 .. Len(SI.pb.ranges) :
             /\ ~SI.pb.ranges[k][3]
             /\ SI.pb.ranges[k][1] <= x /\ x < SI.pb.ranges[k][2] }
  ELSE 0 .. (SI.size - 1)

\* C6 as stated: a load not classified never-check is must-check iff some
\* candidate target has a byte of [offset, offset+loadSize) that is not
\* known-safe, an absent allocation being unsafe iff all-clobbered is set.
C6_Original ==
  (rdOut # "none" /\ rdOut # TLS_NEVERCHECK) =>
    (rdOut = TLS_MUSTCHECK <=>
       \E t \in ReadCandidates(rd.SI) : \E x \in 0 .. (rd.SI.size - 1) :
         ~SafeByte(rd.S, t.V, t.Offset + x))

\* C6: a load not classified never-check is must-check iff some candidate
\* target (not null, not constant) has a byte of [offset, offset+loadSize)
\* whose propagated value is not wholly unknown and that is not known-safe in
\* the store, an absent allocation being unsafe iff all-clobbered is set; it is
\* no-check-needed otherwise.
C6_CheckIffUnsafeKnownByte ==
  (rdOut # "none" /\ rdOut # TLS_NEVERCHECK) =>
    (rdOut = TLS_MUSTCHECK <=>
       \E t \in ReadCandidates(rd.SI) : \E x \in KnownBytes(rd.SI) :
         ~SafeByte(rd.S, t.V, t.Offset + x))

\* a two-target load of two bytes classified no-check-needed from a store
\* whose map for G1 holds more than the bytes read
C6_Witness ==
  /\ rdOut = TLS_NOCHECK
  /\ rd.SI.ptr.iv /\ Len(rd.SI.ptr.vals) = 2
  /\ \E i \in 1 .. 2 : rd.SI.ptr.vals[i].V = G1
  /\ rd.S.allOthersClobbered
  /\ rd.S.m[G1] # NoEntry /\ MapBytes(rd.S.m[G1]) # {}
  /\ MapBytes(rd.S.m[G1]) # Bytes

\* C2: after mergeStores(A, B) the safe bytes of B are exactly the bytes safe
\* in both A and the old B, A is as it was, and every range the call inserted
\* is non-empty.
C2_MergeIsIntersection ==
  lastMerge.done =>
    /\ MapBytes(lastMerge.toAfter) = MapBytes(lastMerge.from) \cap MapBytes(lastMerge.to)
    /\ lastMerge.fromAfter = lastMerge.from
    /\ \A k \in 1 .. Len(lastMerge.keep) : lastMerge.keep[k][1] < lastMerge.keep[k][2]

\* an interval of B ends exactly where an interval of A starts, and the merge
\* kept some bytes
C2_Witness ==
  /\ lastMerge.done
  /\ \E a \in 1 .. Len(lastMerge.from), b \in 1 .. Len(lastMerge.to) :
       lastMerge.to[b][2] = lastMerge.from[a][1]
  /\ lastMerge.toAfter # EmptyMap

\* C3: whatever the order and grouping in which the predecessors' maps were
\* merged, the one map left holds the bytes safe in every original map.
C3_MergeOrderIndependent ==
  (\E j \in 1 .. NPreds : alive = {j}) =>
    \A j \in alive :
      MapBytes(maps[j]) = { x \in Bytes : \A i \in 1 .. NPreds : x \in MapBytes(orig[i]) }

\* all maps merged into one, from pairwise different maps, with bytes left
C3_Witness ==
  /\ \E j \in 1 .. NPreds : alive = {j} /\ maps[j] # EmptyMap
  /\ \A i, j \in 1 .. NPreds : i # j => orig[i] # orig[j]

(***************************************************************************)
(* Spec: the analysis over bounded programs                                *)
(***************************************************************************)
\* the instructions a program slot can hold
SlotInsts ==
  { Nop, Yield, YieldDom, Store(G1, 0, ObjSize), Store(G1, 0, 1),
    Load(G1, 0, ObjSize, TRUE), Load(G1, 0, ObjSize, FALSE) }
LineInsts ==
  SlotInsts \cup { YieldPess, Store(G2, 0, ObjSize), Load(G2, 0, ObjSize, TRUE),
                   Load(G1, ObjSize - 1, 1, TRUE) }
TailInsts == { Load(G1, 0, ObjSize, TRUE), Load(G1, 0, 1, TRUE) }
LineTailInsts == TailInsts \cup { Nop, Yield, Load(G2, 0, ObjSize, TRUE) }

\* the root context: its function is read while RootIA is still null, so its
\* frameSize is the number of leading allocas (0 here), never the sentinel -1
RootContext(nBBs, created, succsAlive, inlineChildren, peelChildren) ==
  Context("inline", "main", NoLoop, 0, 0, nBBs, TRUE, TRUE, FALSE,
          created, succsAlive, inlineChildren, peelChildren)

NoFunction == Function(<< Block(<< >>, << >>, NoLoop, TRUE) >>, -1, NoLoops)

\* main: one block of four instructions ending in a return
LinePrograms ==
  { [fns |-> [main |-> Function(<< Block(<<s0, s1, s2, s3>>, << >>, NoLoop, TRUE) >>, 0, NoLoops),
              callee |-> NoFunction],
     ctx |-> << RootContext(1, {0}, [b \in {0} |-> << >>], {}, {}) >>,
     programSingleThreaded |-> FALSE,
     pathConditions |-> NoPathConditions, targetStack |-> << >>] :
      s0 \in {Nop, Yield}, s1 \in LineInsts, s2 \in LineInsts, s3 \in LineTailInsts }

\* the copy instructions a program slot can hold
CopyInsts ==
  { Memcpy(G2, G1, ObjSize, << <<0, ObjSize, FALSE>> >>),
    Memcpy(G2, G1, ObjSize, << >>),
    Realloc(G1, ObjSize, << <<0, ObjSize, FALSE>> >>),
    Realloc(G1, ObjSize, << <<0, 1, TRUE>>, <<1, ObjSize, FALSE>> >>) }

\* main: one block with a memory transfer or a realloc call in it
CopyPrograms ==
  { [fns |-> [main |-> Function(<< Block(<<s0, s1, s2, s3>>, << >>, NoLoop, TRUE) >>, 0, NoLoops),
              callee |-> NoFunction],
     ctx |-> << RootContext(1, {0}, [b \in {0} |-> << >>], {}, {}) >>,
     programSingleThreaded |-> FALSE,
     pathConditions |-> NoPathConditions, targetStack |-> << >>] :
      s0 \in {Nop, Yield}, s1 \in {Nop, Yield, Store(G1, 0, ObjSize)}, s2 \in CopyInsts,
      s3 \in {Load(G1, 0, ObjSize, TRUE), Load(G2, 0, ObjSize, TRUE)} }

\* main: s1; call callee; s2; return.  callee: [alloca;] s3; return or
\* unreachable.  The callee's context is enabled or not.
CallPrograms ==
  { [fns |-> [main |-> Function(<< Block(<<s1, Call, s2>>, << >>, NoLoop, TRUE) >>, 0, NoLoops),
              callee |-> Function(
                 << Block(IF fs = 1 THEN <<Alloca, s3>> ELSE <<s3>>, << >>, NoLoop, rets) >>,
                 fs, NoLoops)],
     ctx |-> << RootContext(1, {0}, [b \in {0} |-> << >>], {<<0, 2, 2>>}, {}),
                Context("inline", "callee", NoLoop, 1, 0, 1, en, FALSE, TRUE,
                        {0}, [b \in {0} |-> << >>], {}, {}) >>,
     programSingleThreaded |-> FALSE,
     pathConditions |-> NoPathConditions, targetStack |-> << >>] :
      s1 \in SlotInsts, s2 \in TailInsts, s3 \in SlotInsts,
      fs \in {-1, 1}, rets \in BOOLEAN, en \in BOOLEAN }

\* main: b0 -> {b1, b2} -> b3, either or both branches live
DiamondPrograms ==
  { [fns |-> [main |-> Function(<< Block(<<s1>>, <<1, 2>>, NoLoop, FALSE),
                                   Block(<<s2>>, <<3>>, NoLoop, FALSE),
                                   Block(<<s3>>, <<3>>, NoLoop, FALSE),
                                   Block(<<s4>>, << >>, NoLoop, TRUE) >>, 0, NoLoops),
              callee |-> NoFunction],
     ctx |-> << RootContext(4, {0, 3} \cup (IF ls[1] THEN {1} ELSE {})
                                    \cup (IF ls[2] THEN {2} ELSE {}),
                            (0 :> ls) @@ (1 :> <<TRUE>>) @@ (2 :> <<TRUE>>)
                              @@ (3 :> << >>),
                            {}, {}) >>,
     programSingleThreaded |-> FALSE,
     pathConditions |-> NoPathConditions, targetStack |-> << >>] :
      s1 \in {Nop, Yield}, s2 \in SlotInsts, s3 \in SlotInsts, s4 \in TailInsts,
      ls \in { <<TRUE, TRUE>>, <<TRUE, FALSE>>, <<FALSE, TRUE>> } }

\* main: b0 (preheader) -> b1 (header) <-> b2 (latch), b1 -> b3 (exit)
LoopFunction(s1, s2, s3, s4) ==
  Function(<< Block(<<s1>>, <<1>>, NoLoop, FALSE),
              Block(<<s2>>, <<2, 3>>, "L1", FALSE),
              Block(<<s3>>, <<1>>, "L1", FALSE),
              Block(<<s4>>, << >>, NoLoop, TRUE) >>, 0,
           [l \in {"L1"} |-> LoopInvar(1, 0, 2, 2)])

LoopAlive == (0 :> <<TRUE>>) @@ (1 :> <<TRUE, TRUE>>) @@ (2 :> <<TRUE>>) @@ (3 :> << >>)

\* the loop left to the unbounded case: no peel attempt, or one not terminated
UnboundedPrograms ==
  { [fns |-> [main |-> LoopFunction(s1, s2, s3, s4), callee |-> NoFunction],
     ctx |-> << RootContext(4, {0, 1, 2, 3}, LoopAlive, {}, pc) >>,
     programSingleThreaded |-> FALSE,
     pathConditions |-> NoPathConditions, targetStack |-> << >>] :
      s1 \in {Nop, Yield}, s2 \in SlotInsts, s3 \in SlotInsts, s4 \in TailInsts,
      pc \in { {}, { Peel("L1", FALSE, FALSE, << >>) } } }

\* the same loop with a latch of two instructions
LoopBodyFunction(s1, s2, s3, s5, s4) ==
  Function(<< Block(<<s1>>, <<1>>, NoLoop, FALSE),
              Block(<<s2>>, <<2, 3>>, "L1", FALSE),
              Block(<<s3, s5>>, <<1>>, "L1", FALSE),
              Block(<<s4>>, << >>, NoLoop, TRUE) >>, 0,
           [l \in {"L1"} |-> LoopInvar(1, 0, 2, 2)])

LoopBodyPrograms ==
  { [fns |-> [main |-> LoopBodyFunction(s1, s2, s3, s5, s4), callee |-> NoFunction],
     ctx |-> << RootContext(4, {0, 1, 2, 3}, LoopAlive, {}, {}) >>,
     programSingleThreaded |-> FALSE,
     pathConditions |-> NoPathConditions, targetStack |-> << >>] :
      s1 \in {Nop, Yield},
      s2 \in {Load(G1, 0, ObjSize, TRUE), Store(G1, 0, ObjSize), Yield},
      s3 \in {Load(G1, 0, ObjSize, TRUE), Store(G1, 0, ObjSize), Nop},
      s5 \in {Yield, YieldDom, Nop},
      s4 \in TailInsts }

\* the call program with a path condition on bytes of G1 attached to the
\* callee's block, held by the callee's function or by the target stack
PathCondPrograms ==
  { [fns |-> [main |-> Function(<< Block(<<s1, Call, s2>>, << >>, NoLoop, TRUE) >>, 0, NoLoops),
              callee |-> [Function(<< Block(<<s3>>, << >>, NoLoop, TRUE) >>, -1, NoLoops)
                            EXCEPT !.pathConditions =
                              IF held = "function"
                              THEN IF ty = "Intmem"
                                   THEN PathConditions(
                                          << PathCondition(UINT_MAX, <<"callee", 0>>,
                                                           UniquePtr(G1, 0), r[1], r[2]) >>, << >>)
                                   ELSE PathConditions(<< >>,
                                          << PathCondition(UINT_MAX, <<"callee", 0>>,
                                                           UniquePtr(G1, 0), r[1], r[2]) >>)
                              ELSE NoPathConditions]],
     ctx |-> << RootContext(1, {0}, [b \in {0} |-> << >>], {<<0, 2, 2>>}, {}),
                Context("inline", "callee", NoLoop, 1, 0, 1, en, FALSE, TRUE,
                        {0}, [b \in {0} |-> << >>], {}, {}) >>,
     programSingleThreaded |-> FALSE,
     pathConditions |->
       IF held = "stack"
       THEN IF ty = "Intmem"
            THEN PathConditions(<< PathCondition(1, <<"callee", 0>>,
                                                 UniquePtr(G1, 0), r[1], r[2]) >>, << >>)
            ELSE PathConditions(<< >>, << PathCondition(1, <<"callee", 0>>,
                                                        UniquePtr(G1, 0), r[1], r[2]) >>)
       ELSE NoPathConditions,
     targetStack |-> IF held = "stack" THEN <<1, 2>> ELSE << >>] :
      s1 \in {Nop, Yield, Store(G1, 0, 1)},
      s2 \in TailInsts,
      s3 \in {Nop, Load(G1, 0, ObjSize, TRUE), Load(G1, 0, 1, TRUE)},
      r \in { <<0, ObjSize>>, <<0, 1>>, <<1, 1>> },
      ty \in {"Intmem", "String"},
      held \in {"function", "stack"},
      en \in BOOLEAN }

\* iteration k of n of the terminated peel attempt: the last one leaves the
\* loop from the header, the others go round
Iteration(k, n) ==
  Context("iter", "main", "L1", 1, 1, 2, TRUE, FALSE, TRUE,
          IF k = n THEN {1} ELSE {1, 2},
          (1 :> <<k # n, k = n>>) @@ (2 :> <<k # n>>), {}, {})

PeeledPrograms ==
  { [fns |-> [main |-> LoopFunction(s1, s2, s3, s4), callee |-> NoFunction],
     ctx |-> << RootContext(4, {0, 1, 2, 3}, LoopAlive, {},
                            { Peel("L1", TRUE, en, [k \in 1 .. n |-> k + 1]) }) >>
                \o [k \in 1 .. n |-> Iteration(k, n)],
     programSingleThreaded |-> FALSE,
     pathConditions |-> NoPathConditions, targetStack |-> << >>] :
      s1 \in {Nop, Yield}, s2 \in SlotInsts, s3 \in SlotInsts, s4 \in TailInsts,
      n \in 1 .. NIter, en \in BOOLEAN }

Programs ==
  LinePrograms \cup CopyPrograms \cup CallPrograms \cup DiamondPrograms
    \cup UnboundedPrograms \cup LoopBodyPrograms \cup PeeledPrograms \cup PathCondPrograms


\* the counters of a context nothing was counted in
NoneChecked == [checkedInstructionsHere |-> 0, checkedInstructionsChildren |-> 0]

\* the state before the first analysis of one of the programs P
InitOf(P) ==
  /\ mode = "walk"
  /\ hcf = NoFolder
  /\ ShadowIdle
  /\ prog \in P
  /\ stores = << >>
  /\ tlStore = [k \in { <<c, b>> \in (1 .. Len(prog.ctx)) \X (0 .. 3) :
                          b \in prog.ctx[c].created } |-> 0]
  /\ isThreadLocal =
       [k \in { <<c, b, j>> \in (1 .. Len(prog.ctx)) \X (0 .. 3) \X (1 .. 4) :
                  /\ b \in prog.ctx[c].created
                  /\ j <= Len(prog.fns[prog.ctx[c].F].blocks[b].insts) } |-> TLS_MUSTCHECK]
  /\ readsTentativeData = [c \in 1 .. Len(prog.ctx) |-> FALSE]
  /\ tentativeLoadsRun = [c \in 1 .. Len(prog.ctx) |-> FALSE]
  /\ yieldState = [c \in 1 .. Len(prog.ctx) |-> BARRIER_NONE]
  /\ checked = [c \in 1 .. Len(prog.ctx) |-> NoneChecked]
  /\ hist = NoHist
  /\ maps = MergeIdle
  /\ alive = {}
  /\ orig = MergeIdle
  /\ lastMerge = NoMerge
  /\ rd = ReadIdle
  /\ rdOut = "none"

Init == InitOf(Programs)

\* the analysis state the walk threads through
Analysis ==
  [stores |-> stores, tlStore |-> tlStore, isThreadLocal |-> isThreadLocal,
   readsTentativeData |-> readsTentativeData, yieldState |-> yieldState, hist |-> hist]

Snapshot ==
  [stores |-> stores, tlStore |-> tlStore, isThreadLocal |-> isThreadLocal]

\* the variables after a run that ends in the analysis state A
RunEndsIn(A) ==
  /\ stores' = A.stores
  /\ tlStore' = A.tlStore
  /\ isThreadLocal' = A.isThreadLocal
  /\ readsTentativeData' = A.readsTentativeData
  /\ yieldState' = A.yieldState
  /\ hist' = [A.hist EXCEPT !.runs = @ + 1,
                            !.first = IF hist.runs = 0 THEN A.isThreadLocal ELSE @,
                            !.before = Snapshot,
                            !.lastOp = "run",
                            !.lastRun = IF tentativeLoadsRun[1] THEN "flagged" ELSE "clear",
                            !.afterReset = (hist.lastOp = "reset")]

\* the root's findTentativeLoads(false, false): one run of the whole analysis
FindTentativeLoads ==
  /\ mode = "walk"
  /\ hist.runs < MaxRuns
  /\ RunEndsIn(findTentativeLoads(Analysis, 1, FALSE, FALSE))
  /\ UNCHANGED <<fun, functionInfo, shadows, mode, hcf, prog, checked, tentativeLoadsRun, maps, alive, orig, lastMerge, rd, rdOut>>

\* the root's resetTentativeLoads()
ResetTentativeLoads ==
  /\ mode = "walk"
  /\ tentativeLoadsRun' = [c \in CtxIds |-> IF c \in resetSet(1) THEN FALSE
                                            ELSE tentativeLoadsRun[c]]
  /\ hist' = IF tentativeLoadsRun[1] THEN [hist EXCEPT !.lastOp = "reset"] ELSE hist
  /\ UNCHANGED <<fun, functionInfo, shadows, mode, hcf, prog, checked, stores, tlStore, isThreadLocal, readsTentativeData, yieldState,
                 maps, alive, orig, lastMerge, rd, rdOut>>

\* the analysed context tree is marked as already run
MarkTentativeLoadsRun ==
  /\ mode = "walk"
  /\ hist.runs >= 1
  /\ ~tentativeLoadsRun[1]
  /\ tentativeLoadsRun' = [c \in CtxIds |-> IF c \in resetSet(1) THEN TRUE
                                            ELSE tentativeLoadsRun[c]]
  /\ hist' = [hist EXCEPT !.lastOp = "mark"]
  /\ UNCHANGED <<fun, functionInfo, shadows, mode, hcf, prog, checked, stores, tlStore, isThreadLocal, readsTentativeData, yieldState,
                 maps, alive, orig, lastMerge, rd, rdOut>>

Next == FindTentativeLoads \/ ResetTentativeLoads \/ MarkTentativeLoadsRun

(***************************************************************************)
(* rerunTentativeLoads: the enclosing flow resumes after the disabled      *)
(* inline context IA called from block b of context c                      *)
(***************************************************************************)
\* variant: the emptied store is not marked as clobbered
rerunTentativeLoadsUnmarked(A, c, b, IA) ==
  IF A.readsTentativeData[IA]
  THEN getEmptyMap(A, c, b)
  ELSE IF IA \notin DOMAIN A.hist.backupTlStore
  THEN [A EXCEPT !.hist.assertFailed = TRUE]
  ELSE TakeNewStore(dropReference(A, TL(A, c, b)), c, b,
                    [NewStoreRec EXCEPT
                       !.m = A.hist.backupTlStore[IA].m,
                       !.allOthersClobbered = A.hist.backupTlStore[IA].allOthersClobbered,
                       !.frames = A.hist.backupTlStore[IA].frames])

\* the emptied store of block b has its flag set in place
markEmptied(B, c, b) ==
  [B EXCEPT !.stores[TL(B, c, b)].allOthersClobbered = TRUE]

rerunTentativeLoads(A, c, b, IA) ==
  IF A.readsTentativeData[IA]
  THEN markEmptied(getEmptyMap(A, c, b), c, b)
  ELSE IF IA \notin DOMAIN A.hist.backupTlStore
  THEN [A EXCEPT !.hist.assertFailed = TRUE]
  ELSE TakeNewStore(dropReference(A, TL(A, c, b)), c, b,
                    [NewStoreRec EXCEPT
                       !.m = A.hist.backupTlStore[IA].m,
                       !.allOthersClobbered = A.hist.backupTlStore[IA].allOthersClobbered,
                       !.frames = A.hist.backupTlStore[IA].frames])

\* the variables after rerunTentativeLoads gave the analysis state A
RerunEndsIn(A, c, b, IA) ==
  /\ stores' = A.stores
  /\ tlStore' = A.tlStore
  /\ hist' = [A.hist EXCEPT !.lastOp = "rerun",
                            !.rerun = [c |-> c, b |-> b, IA |-> IA,
                                       before |-> StoreContent(stores[tlStore[<<c, b>>]])]]

\* rerunTentativeLoads(SI, IA) for a call SI, once after an analysis, when the
\* calling block holds a store
RerunTentativeLoads ==
  /\ mode = "walk"
  /\ hist.lastOp = "run"
  /\ \E c \in CtxIds :
       \E t \in Ctx(c).inlineChildren :
         /\ ~Ctx(t[3]).enabled
         /\ tlStore[<<c, t[1]>>] # 0
         /\ stores[tlStore[<<c, t[1]>>]].live
         /\ RerunEndsIn(rerunTentativeLoads(Analysis, c, t[1], t[3]), c, t[1], t[3])
  /\ UNCHANGED <<fun, functionInfo, shadows, mode, hcf, prog, checked, isThreadLocal, readsTentativeData, yieldState,
                 tentativeLoadsRun, maps, alive, orig, lastMerge, rd, rdOut>>

\* the programs with a call: analysed, then resumed after the callee
InitRerun == InitOf(CallPrograms \cup PathCondPrograms)

NextRerun == FindTentativeLoads \/ RerunTentativeLoads

SpecRerun == InitRerun /\ [][NextRerun]_vars

Spec == Init /\ [][Next]_vars

(***************************************************************************)
(* SpecInst: the analysis over programs with every kind of instruction     *)
(* updateTLStore tells apart, a disabled callee of several instructions    *)
(* and a path condition function                                           *)
(***************************************************************************)
\* the calls and volatile loads a slot can hold besides SlotInsts
CallInsts ==
  { Memset(G1, ObjSize, TRUE), Memset(G2, 1, TRUE), Memset(G1, ObjSize, FALSE),
    ReadFile(G2, ObjSize), Registered(ReadFile(G1, 1)),
    Malloc, Registered(Malloc), Special, Registered(Special),
    Registered(Realloc(G1, ObjSize, << <<0, ObjSize, FALSE>> >>)),
    Alloca, YieldPess,
    VolatileLoad(G1, 0, ObjSize, TRUE), VolatileLoad(G2, 0, ObjSize, FALSE) }

\* main: one block of four instructions ending in a return
OrdinaryPrograms ==
  { [fns |-> [main |-> Function(<< Block(<<s0, s1, s2, s3>>, << >>, NoLoop, TRUE) >>, 0, NoLoops),
              callee |-> NoFunction],
     ctx |-> << RootContext(1, {0}, [b \in {0} |-> << >>], {}, {}) >>,
     programSingleThreaded |-> FALSE,
     pathConditions |-> NoPathConditions, targetStack |-> << >>] :
      s0 \in {Nop, Yield}, s1 \in CallInsts \cup {YieldDom},
      s2 \in CallInsts \cup {Store(G1, 0, 1)},
      s3 \in {Load(G1, 0, ObjSize, TRUE), Load(G2, 0, ObjSize, TRUE), Load(H1, 0, ObjSize, TRUE)} }

\* main: s1; call callee; load y; return.  callee: s3; load x; write y;
\* return.  The callee's context is enabled or not.
DisabledPrograms ==
  { [fns |-> [main |-> Function(<< Block(<<s1, Call, Load(G2, 0, ObjSize, TRUE)>>, << >>,
                                         NoLoop, TRUE) >>, 0, NoLoops),
              callee |-> Function(<< Block(<<s3, Load(G1, 0, ObjSize, TRUE), w>>, << >>,
                                           NoLoop, TRUE) >>, -1, NoLoops)],
     ctx |-> << RootContext(1, {0}, [b \in {0} |-> << >>], {<<0, 2, 2>>}, {}),
                Context("inline", "callee", NoLoop, 1, 0, 1, en, FALSE, TRUE,
                        {0}, [b \in {0} |-> << >>], {}, {}) >>,
     programSingleThreaded |-> FALSE,
     pathConditions |-> NoPathConditions, targetStack |-> << >>] :
      s1 \in {Nop, Yield}, s3 \in {Nop, Yield},
      w \in {Store(G2, 0, ObjSize), Memset(G2, ObjSize, TRUE), ReadFile(G2, ObjSize),
              Memcpy(G2, G1, ObjSize, << <<0, ObjSize, FALSE>> >>)},
      en \in BOOLEAN }

\* main: s1; s2; return, with a path condition function held by main's
\* function.  The path condition function ("callee": [alloca;] s3; return)
\* has a context of its own, which has no callers.
PathFuncPrograms ==
  { [fns |-> [main |-> [Function(<< Block(<<s1, s2>>, << >>, NoLoop, TRUE) >>, 0, NoLoops)
                          EXCEPT !.pathConditions =
                            [NoPathConditions EXCEPT
                               !.FuncPathConditions = << PathFunc(UINT_MAX, 2) >>]],
              callee |-> Function(
                 << Block(IF fs = 1 THEN <<Alloca, s3>> ELSE <<s3>>, << >>, NoLoop, TRUE) >>,
                 fs, NoLoops)],
     ctx |-> << RootContext(1, {0}, [b \in {0} |-> << >>], {}, {}),
                Context("inline", "callee", NoLoop, 1, 0, 1, TRUE, FALSE, FALSE,
                        {0}, [b \in {0} |-> << >>], {}, {}) >>,
     programSingleThreaded |-> FALSE,
     pathConditions |-> NoPathConditions, targetStack |-> << >>] :
      s1 \in SlotInsts, s2 \in TailInsts, s3 \in SlotInsts, fs \in {-1, 1} }

\* the unbounded loop with a volatile load in its header or its latch
VolatilePrograms ==
  { [fns |-> [main |-> LoopFunction(s1, s2, s3, s4), callee |-> NoFunction],
     ctx |-> << RootContext(4, {0, 1, 2, 3}, LoopAlive, {}, {}) >>,
     programSingleThreaded |-> st,
     pathConditions |-> NoPathConditions, targetStack |-> << >>] :
      s1 \in {Nop, Yield},
      s2 \in {VolatileLoad(G1, 0, ObjSize, TRUE), Load(G1, 0, ObjSize, TRUE), Store(G1, 0, ObjSize)},
      s3 \in {VolatileLoad(G1, 0, ObjSize, TRUE), VolatileLoad(G2, 0, ObjSize, FALSE),
               Store(G1, 0, ObjSize)},
      s4 \in TailInsts, st \in BOOLEAN }

\* main: b0 = [s1; call callee] -> b1 = [s2; return].  callee: s3; return or
\* unreachable.  When the callee never returns, b1 is dead.
NoReturnPrograms ==
  { [fns |-> [main |-> Function(<< Block(<<s1, Call>>, <<1>>, NoLoop, FALSE),
                                   Block(<<s2>>, << >>, NoLoop, TRUE) >>, 0, NoLoops),
              callee |-> Function(<< Block(<<s3>>, << >>, NoLoop, rets) >>, -1, NoLoops)],
     ctx |-> << RootContext(2, IF rets THEN {0, 1} ELSE {0},
                            (0 :> <<rets>>) @@ (1 :> << >>), {<<0, 2, 2>>}, {}),
                Context("inline", "callee", NoLoop, 1, 0, 1, en, FALSE, TRUE,
                        {0}, [b \in {0} |-> << >>], {}, {}) >>,
     programSingleThreaded |-> FALSE,
     pathConditions |-> NoPathConditions, targetStack |-> << >>] :
      s1 \in {Nop, Yield}, s2 \in TailInsts, s3 \in SlotInsts,
      rets \in BOOLEAN, en \in BOOLEAN }

InstPrograms ==
  OrdinaryPrograms \cup DisabledPrograms \cup PathFuncPrograms \cup VolatilePrograms
    \cup NoReturnPrograms

InitInst == InitOf(InstPrograms)

SpecInst == InitInst /\ [][Next]_vars

(***************************************************************************)
(* Properties of the analysis                                              *)
(***************************************************************************)
InstsOf(c, b) == getBBInvar(c, b).insts

\* a yield point in the sense of the claims: a registered yield function with
\* no lock domain that is not a pessimistic lock
PlainYield(SI) == SI.op = "yield" /\ SI.dom = {} /\ ~SI.pess

\* the object a load or store is uniquely resolved to, ObjNull for none
TargetOf(SI) ==
  IF SI.op \in {"load", "store"} /\ hasUniqueIV(SI.ptr) /\ SI.ptr.setType = "PB"
  THEN SI.ptr.vals[1].V
  ELSE ObjNull

\* the bytes a load or store touches
BytesOf(SI) == { x \in Bytes : SI.ptr.vals[1].Offset <= x /\ x < SI.ptr.vals[1].Offset + SI.size }

\* a load the claims speak about: target uniquely resolved, not null, not
\* constant, and a propagated value that is not wholly unknown
KnownLoad(SI) ==
  /\ SI.op = "load"
  /\ ~SI.volatile
  /\ ~isNullOrConst(TargetOf(SI))
  /\ ~(SI.pb.kind = "single" /\ SI.pb.unknown)

\* are commits disabled in context c (an ancestor or its peel attempt is disabled)
RECURSIVE CtxCommitDisabled(_)
CtxCommitDisabled(c) ==
  IF Ctx(c).parent = 0 THEN FALSE
  ELSE IF Ctx(c).kind = "iter"
  THEN (~getPeelAttempt(Ctx(c).parent, Ctx(c).L).enabled) \/ CtxCommitDisabled(Ctx(c).parent)
  ELSE (~Ctx(c).enabled) \/ CtxCommitDisabled(Ctx(c).parent)

\* are commits disabled when block b of context c is walked
CommitDisabledAt(c, b) ==
  LET NL == getBBInvar(c, b).naturalScope
  IN \/ CtxCommitDisabled(c)
     \/ /\ NL # NoLoop
        /\ NL # Ctx(c).L
        /\ hasPeelAttempt(c, NL)
        /\ ~getPeelAttempt(c, NL).terminated
        /\ ~getPeelAttempt(c, NL).enabled

\* does instruction SI of block b of context c re-validate byte x of object V
Revalidates(c, b, SI, V, x) ==
  /\ ~CommitDisabledAt(c, b)
  /\ \/ TargetOf(SI) = V /\ ~SI.volatile /\ x \in BytesOf(SI)
     \/ SI.op = "alloca" /\ V = StackBase + getFunctionRoot(c) /\ x < ObjSize
     \/ /\ SI.op \in {"memcpy", "realloc"}
        /\ SI.lenValid
        /\ \E p \in {SI.ptr, SI.dst} :
             /\ hasUniqueIV(p) /\ p.setType = "PB" /\ p.vals[1].V = V
             /\ p.vals[1].Offset <= x /\ x < p.vals[1].Offset + SI.size
     \/ SI.op = "realloc" /\ V = SI.dst.vals[1].V /\ x < ObjSize

(***************************************************************************)
(* The paths of the specialised program.  A position <<c, b, j>> is "before*)
(* instruction j of block b of context c"; j past the last instruction is  *)
(* the end of the block.                                                   *)
(***************************************************************************)
Positions ==
  { p \in CtxIds \X (0 .. 3) \X (1 .. 5) :
      /\ p[2] \in Ctx(p[1]).created
      /\ p[3] <= Len(InstsOf(p[1], p[2])) + 1 }

\* where the live edge from block b of context c to block s leads: into the
\* first iteration of a terminated peel attempt, on to the next iteration, out
\* of an iteration into its parent, or to block s of c itself
EdgeTarget(c, b, s) ==
  LET NL == getBBInvar(c, s).naturalScope
      CL == Ctx(c).L
  IN IF Ctx(c).kind = "iter" /\ s = LInfo(c, CL).headerIdx
     THEN LET its == getPeelAttempt(Ctx(c).parent, CL).Iterations
          IN { <<its[k + 1], s, 1>> : k \in { h \in 1 .. (Len(its) - 1) : its[h] = c } }
     ELSE IF Ctx(c).kind = "iter" /\ ~LoopContains(c, CL, NL)
     THEN { <<Ctx(c).parent, s, 1>> }
     ELSE IF NL # NoLoop /\ NL # CL /\ hasPeelAttempt(c, NL)
               /\ getPeelAttempt(c, NL).terminated
     THEN { <<getPeelAttempt(c, NL).Iterations[1], s, 1>> }
     ELSE { <<c, s, 1>> }

\* the positions control can move to from position p
Succ(p) ==
  LET c == p[1]
      b == p[2]
      j == p[3]
      BBI == getBBInvar(c, b)
  IN IF j <= Len(BBI.insts)
     THEN IF BBI.insts[j].op = "call" /\ getInlineAttempt(c, b, j) # 0
          THEN { <<getInlineAttempt(c, b, j), 0, 1>> }
          ELSE { <<c, b, j + 1>> }
     ELSE (UNION { EdgeTarget(c, b, BBI.succIdxs[i]) :
                     i \in { h \in 1 .. Len(BBI.succIdxs) : Ctx(c).succsAlive[b][h] } }
             \cup (IF BBI.isRet /\ Ctx(c).kind = "inline" /\ Ctx(c).parent # 0
                   THEN { <<Ctx(c).parent, t[1], t[2] + 1>> :
                            t \in { u \in Ctx(Ctx(c).parent).inlineChildren : u[3] = c } }
                   ELSE {}))
          \cap Positions

\* the positions reachable from the set S
RECURSIVE ReachableFrom(_)
ReachableFrom(S) ==
  LET N == S \cup UNION { Succ(p) : p \in S }
  IN IF N = S THEN S ELSE ReachableFrom(N)

Reachable == ReachableFrom({ <<1, 0, 1>> })

AtInst(p) == p[3] <= Len(InstsOf(p[1], p[2]))
InstAt(p) == InstsOf(p[1], p[2])[p[3]]

\* the positions that a path reaches with byte x of object V passed through a
\* yield point and not re-validated since, starting from the set T
\* do the path conditions of the block that position p enters re-validate
\* byte x of object V
EntryRevalidates(p, V, x) ==
  /\ p[3] = 1
  /\ ~CommitDisabledAt(p[1], p[2])
  /\ \E Cond \in MatchingConds(p[1], p[2]) :
       /\ Cond.sv.vals[1].V = V
       /\ Cond.sv.vals[1].Offset + Cond.offset <= x
       /\ x < Cond.sv.vals[1].Offset + Cond.offset + Cond.len

\* the positions of S that byte x of object V reaches without re-validation
Arrive(S, V, x) == { p \in S : ~EntryRevalidates(p, V, x) }

RECURSIVE UnsafeFrom(_, _, _)
UnsafeFrom(T, V, x) ==
  LET N == T \cup Arrive(UNION { Succ(p) :
                 p \in { q \in T : ~(AtInst(q) /\ Revalidates(q[1], q[2], InstAt(q), V, x)) } },
                 V, x)
  IN IF N = T THEN T ELSE UnsafeFrom(N, V, x)

UnsafeAt(V, x) ==
  UnsafeFrom(Arrive(UNION { Succ(p) :
                      p \in { q \in Reachable : AtInst(q) /\ PlainYield(InstAt(q)) } }, V, x),
             V, x)

\* C1: after the first analysis of the whole context tree every load in an
\* enabled context, from a uniquely resolved non-null non-constant allocation
\* and with a value that is not wholly unknown, is must-check whenever a live
\* path from the root's entry reaches it with one of its bytes passed through
\* a yield point (no lock domain, not pessimistic) and not re-validated since.
C1_Soundness ==
  hist.runs = 1 =>
    \A p \in Reachable :
      ( /\ AtInst(p)
        /\ KnownLoad(InstAt(p))
        /\ ~CommitDisabledAt(p[1], p[2])
        /\ \E x \in BytesOf(InstAt(p)) : p \in UnsafeAt(TargetOf(InstAt(p)), x) )
      => isThreadLocal[p] = TLS_MUSTCHECK

\* C4: after an analysis, a load of a known value from a non-null,
\* non-constant allocation that follows a yield point (no lock domain, not a
\* pessimistic lock) in its block with no re-validation of its bytes and no
\* call in between is must-check, whatever came before the yield; and a root
\* return block that ends with such a yield is left with a store that has the
\* all-clobbered flag and no safe byte for any allocation.
C4_YieldClobbersEverything ==
  hist.runs >= 1 =>
    \A k \in DOMAIN isThreadLocal :
      LET c == k[1]
          b == k[2]
          j == k[3]
          insts == InstsOf(c, b)
          sid == tlStore[<<c, b>>]
      IN PlainYield(insts[j]) =>
           /\ \A l \in (j + 1) .. Len(insts) :
                ( /\ KnownLoad(insts[l])
                  /\ \A i \in (j + 1) .. (l - 1) :
                       /\ insts[i].op # "call"
                       /\ \A x \in BytesOf(insts[l]) :
                            ~Revalidates(c, b, insts[i], TargetOf(insts[l]), x) )
                => isThreadLocal[<<c, b, l>>] = TLS_MUSTCHECK
           /\ ( /\ hist.lastRun = "clear"
                /\ c = 1
                /\ j = Len(insts)
                /\ getBBInvar(c, b).isRet
                /\ sid # 0 )
              => /\ stores[sid].allOthersClobbered
                 /\ \A o \in Objs :
                      stores[sid].m[o] = NoEntry \/ MapBytes(stores[sid].m[o]) = {}

\* a store made bytes of G1 safe, a yield followed, and the load after it is
\* must-check
C4_Witness ==
  /\ hist.runs = 1
  /\ prog \in LinePrograms
  /\ InstsOf(1, 0) = << Yield, Store(G1, 0, ObjSize), Yield, Load(G1, 0, ObjSize, TRUE) >>
  /\ isThreadLocal[<<1, 0, 4>>] = TLS_MUSTCHECK

\* C5: after the first analysis, a load of a sub-range of the bytes written by
\* an earlier store of its block (enabled context, uniquely resolved
\* non-constant allocation, no yield point and no call between the two) is not
\* must-check.
C5_StoreRendersRangeSafe ==
  hist.runs = 1 =>
    \A k \in DOMAIN isThreadLocal :
      LET c == k[1]
          b == k[2]
          j == k[3]
          insts == InstsOf(c, b)
      IN ( /\ insts[j].op = "store"
           /\ ~isNullOrConst(TargetOf(insts[j]))
           /\ ~CommitDisabledAt(c, b)
           /\ tlStore[<<c, b>>] # 0 )
         => \A l \in (j + 1) .. Len(insts) :
              ( /\ insts[l].op = "load"
                /\ ~insts[l].volatile
                /\ TargetOf(insts[l]) = TargetOf(insts[j])
                /\ BytesOf(insts[l]) \subseteq BytesOf(insts[j])
                /\ \A i \in (j + 1) .. (l - 1) : insts[i].op \notin {"yield", "call"} )
              => isThreadLocal[<<c, b, l>>] # TLS_MUSTCHECK

\* C7: a run of the analysis on a root whose tentativeLoadsRun flag is set
\* leaves every classification, every block's store pointer and every store
\* (contents, frames, reference count) as they were.
C7_FlaggedRunChangesNothing ==
  hist.lastRun = "flagged" => Snapshot = hist.before

\* C8: a run that follows a reset of the flag gives every instruction the same
\* must-check / not-must-check result as the first run gave it.
C8_RerunGivesSameMustCheck ==
  (hist.lastRun = "clear" /\ hist.afterReset) =>
    \A k \in DOMAIN isThreadLocal :
      (isThreadLocal[k] = TLS_MUSTCHECK) <=> (hist.first[k] = TLS_MUSTCHECK)

\* the holders of store s when an analysis is over: the root's return blocks,
\* whose reference is kept for the caller
Holders(s) ==
  { b \in Ctx(1).created : getBBInvar(1, b).isRet /\ tlStore[<<1, b>>] = s }

\* C9: when a full analysis is over no reference count ever went below zero,
\* every store the analysis created has as many references as it has holders
\* (the root's return blocks, whose reference is kept for the caller), a store
\* without references being deleted, and the stores left by earlier analyses
\* are as they were.
C9_ReferenceBalance ==
  hist.lastRun = "clear" =>
    /\ ~hist.negativeCount
    /\ \A s \in 1 .. Len(stores) :
         /\ stores[s].refCount >= 0
         /\ stores[s].live <=> (stores[s].refCount > 0)
         /\ IF s <= Len(hist.before.stores)
            THEN stores[s] = hist.before.stores[s]
            ELSE stores[s].refCount = Cardinality(Holders(s))

\* both branches of the diamond were live: the store of b0 was shared by two
\* edges, a copy was made and merged, and one store is left, with the return
\* block
C9_Witness ==
  /\ hist.runs = 1
  /\ prog \in DiamondPrograms
  /\ Ctx(1).created = {0, 1, 2, 3}
  /\ Len(stores) >= 2
  /\ \E s \in 1 .. Len(stores) : ~stores[s].live
  /\ stores[tlStore[<<1, 3>>]].refCount = 1

\* C10: no run used a store after the last reference to it was dropped.
C10_NoUseAfterLastDrop ==
  ~hist.useAfterFree

\* the header of an unbounded loop took the preheader's and then the latch's
\* store, and the stores released on the way are deleted
C10_Witness ==
  /\ hist.runs >= 1
  /\ prog \in UnboundedPrograms
  /\ tlStore[<<1, 1>>] # 0
  /\ tlStore[<<1, 3>>] # 0
  /\ \E s \in 1 .. Len(stores) : ~stores[s].live
  /\ ~hist.useAfterFree

\* C11: a second pass never downgrades a must-check result: whenever
\* TLAnalyseInstruction is entered with secondPass set for a load or copy
\* instruction that is classified must-check, the instruction is still
\* must-check when it returns.
C11_SecondPassKeepsMustCheck == ~hist.downgraded

\* a second pass met a must-check load that the store held in that pass would
\* have classified otherwise, and left it must-check
C11_Witness ==
  /\ hist.runs >= 1
  /\ hist.secondPassKept
  /\ \E k \in DOMAIN isThreadLocal :
       /\ isLoadOrCopy(InstsOf(k[1], k[2])[k[3]])
       /\ getBBInvar(k[1], k[2]).naturalScope # NoLoop
       /\ isThreadLocal[k] = TLS_MUSTCHECK

\* the loads in the body of an unbounded loop that a path from a yield point
\* of the body reaches with one of their bytes not re-validated since
BodyLoadsAfterBodyYield ==
  { p \in Reachable :
      /\ AtInst(p)
      /\ KnownLoad(InstAt(p))
      /\ Ctx(p[1]).kind = "inline"
      /\ getBBInvar(p[1], p[2]).naturalScope # NoLoop
      /\ \E x \in BytesOf(InstAt(p)) :
           p \in UnsafeFrom(
                   Arrive(UNION { Succ(q) :
                     q \in { r \in Reachable :
                               /\ AtInst(r)
                               /\ PlainYield(InstAt(r))
                               /\ r[1] = p[1]
                               /\ getBBInvar(r[1], r[2]).naturalScope
                                    = getBBInvar(p[1], p[2]).naturalScope } },
                          TargetOf(InstAt(p)), x),
                   TargetOf(InstAt(p)), x) }

isVoidTy(SI) == SI.op \in {"store", "memcpy", "memset"}

\* PeelAttempt::containsTentativeLoads: one of the iterations reads tentative data
PeelContainsTentativeLoads(pa) ==
  \E i \in 1 .. Len(pa.Iterations) : readsTentativeData[pa.Iterations[i]]

\* IntegrationAttempt::requiresRuntimeCheck2 for instruction j of block b of
\* context c.  Every instruction of the programs has a propagated value and
\* needsRuntimeCheck == RUNTIME_CHECK_NONE, so the tests of these two are
\* passed; a realloc is a call instruction.
requiresRuntimeCheck2(c, b, j, includeSpecialChecks) ==
  LET SI == getBBInvar(c, b).insts[j]
      IA == getInlineAttempt(c, b, j)
  IN IF isVoidTy(SI) THEN FALSE
     ELSE IF SI.op \in {"load", "memcpy"} THEN isThreadLocal[<<c, b, j>>] = TLS_MUSTCHECK
     ELSE IF SI.op \in {"call", "realloc", "yield", "readfile", "malloc", "special"}
     THEN IF IA # 0 /\ (~Ctx(IA).enabled) /\ readsTentativeData[IA]
          THEN ~(SI.pb.kind = "single" /\ SI.pb.unknown)
          ELSE FALSE
     ELSE IF SI.op = "phi"
     THEN \E pb \in 0 .. (invarInfo(c).nBlocks - 1) :
            /\ b \in { getBBInvar(c, pb).succIdxs[i] :
                         i \in 1 .. Len(getBBInvar(c, pb).succIdxs) }
            /\ getBBInvar(c, pb).naturalScope # Ctx(c).L
            /\ (Ctx(c).L = NoLoop
                  \/ LoopContains(c, Ctx(c).L, getBBInvar(c, pb).naturalScope))
            /\ hasPeelAttempt(c, getBBInvar(c, pb).naturalScope)
            /\ getPeelAttempt(c, getBBInvar(c, pb).naturalScope).terminated
            /\ ~getPeelAttempt(c, getBBInvar(c, pb).naturalScope).enabled
            /\ PeelContainsTentativeLoads(getPeelAttempt(c, getBBInvar(c, pb).naturalScope))
            /\ ~(SI.pb.kind = "single" /\ SI.pb.unknown)
     ELSE FALSE

\* llvm::requiresRuntimeCheck of an instruction, omitChecks being the global option
requiresRuntimeCheck(omitChecks, c, b, j, includeSpecialChecks) ==
  IF omitChecks THEN FALSE ELSE requiresRuntimeCheck2(c, b, j, includeSpecialChecks)

\* the loads and copies of the blocks walked with commits disabled
DisabledLoads ==
  { k \in DOMAIN isThreadLocal :
      /\ isLoadOrCopy(getBBInvar(k[1], k[2]).insts[k[3]])
      /\ CommitDisabledAt(k[1], k[2]) }

C14_PathConditionsMarkSafe == ~hist.pathCondUnsafe

\* the store of the calling block after rerunTentativeLoads
RerunStore == stores[tlStore[<<hist.rerun.c, hist.rerun.b>>]]

\* C15: after rerunTentativeLoads for a disabled inline context, the calling
\* block's store is empty with the all-clobbered flag set if the context read
\* tentative data, and otherwise holds exactly what the backup taken on entry
\* to the context holds.
C15_RerunAfterDisabledContext ==
  hist.lastOp = "rerun" =>
    IF readsTentativeData[hist.rerun.IA]
    THEN RerunStore.m = NoEntries /\ RerunStore.allOthersClobbered
    ELSE /\ ~hist.assertFailed
         /\ StoreContent(RerunStore) = hist.backupTlStore[hist.rerun.IA]

\* the flow has resumed after a disabled context that read tentative data and
\* whose calling block held safe bytes before
C15_Witness ==
  /\ hist.lastOp = "rerun"
  /\ readsTentativeData[hist.rerun.IA]
  /\ hist.rerun.before.m # NoEntries

\* C16: after an analysis every load, memory transfer and realloc call on a
\* live path that is classified must-check is reported by requiresRuntimeCheck
\* when checks are not omitted, with or without the special checks.
C16_MustCheckReported ==
  (hist.runs >= 1 /\ hist.lastOp = "run") =>
    \A k \in DOMAIN isThreadLocal \cap Reachable :
      (isLoadOrCopy(InstAt(k)) /\ isThreadLocal[k] = TLS_MUSTCHECK) =>
        \A includeSpecialChecks \in BOOLEAN :
          requiresRuntimeCheck(FALSE, k[1], k[2], k[3], includeSpecialChecks)

(***************************************************************************)
(* main/Shadows.cpp: the invariant model of a function                     *)
(*                                                                         *)
(* The llvm Function is a CFG over blocks 1 .. n with, for each block, its *)
(* successors in succ_iterator order and its instructions (an alloca or    *)
(* anything else); LoopInfo is the loop nest llvm computed for it, each    *)
(* loop with its blocks in getBlocks() order, header first.                *)
(***************************************************************************)
MaxAllocas == 2

LLVMLoop(header, blocks, parent) == [header |-> header, blocks |-> blocks, parent |-> parent]

LLVMFunction(entry, succ, loops, wellNested) ==
  [entry |-> entry, succ |-> succ, loops |-> loops, wellNested |-> wellNested]

NoLLVMLoops == [l \in {} |-> LLVMLoop(0, << >>, NoLoop)]

Range(sq) == { sq[k] : k \in DOMAIN sq }

FunBlocks == DOMAIN fun.succ
LoopBlocks(L) == Range(fun.loops[L].blocks)

\* LoopInfo::getLoopFor: the innermost loop holding the block, null for none
getLoopFor(BB) ==
  IF \A l \in DOMAIN fun.loops : BB \notin LoopBlocks(l) THEN NoLoop
  ELSE CHOOSE l \in DOMAIN fun.loops :
         /\ BB \in LoopBlocks(l)
         /\ \A m \in DOMAIN fun.loops : BB \in LoopBlocks(m) => LoopBlocks(l) \subseteq LoopBlocks(m)

\* LoopBase::contains(const Loop*): L is M or an ancestor of M; false for null
RECURSIVE containsLoop(_, _)
containsLoop(L, M) ==
  IF M = L THEN TRUE
  ELSE IF M = NoLoop THEN FALSE
  ELSE containsLoop(L, fun.loops[M].parent)

predecessors(BB) == { p \in FunBlocks : BB \in Range(fun.succ[p]) }

\* LoopBase::getExitBlocks: for each block of the loop, in getBlocks() order,
\* each successor outside the loop, in successor order
RECURSIVE getExitBlocksFrom(_, _)
getExitBlocksFrom(L, k) ==
  IF k > Len(fun.loops[L].blocks) THEN << >>
  ELSE SelectSeq(fun.succ[fun.loops[L].blocks[k]], LAMBDA x : x \notin LoopBlocks(L))
         \o getExitBlocksFrom(L, k + 1)

getExitBlocks(L) == getExitBlocksFrom(L, 1)

\* LoopBase::getLoopPreheader: the one predecessor of the header outside the
\* loop, when the header is its only successor; 0 (null) otherwise
getLoopPreheader(L) ==
  IF /\ Cardinality(predecessors(fun.loops[L].header) \ LoopBlocks(L)) = 1
     /\ \A p \in predecessors(fun.loops[L].header) \ LoopBlocks(L) : Len(fun.succ[p]) = 1
  THEN CHOOSE p \in predecessors(fun.loops[L].header) \ LoopBlocks(L) : TRUE
  ELSE 0

\* LoopBase::getLoopLatch: the one predecessor of the header inside the loop
getLoopLatch(L) ==
  IF Cardinality(predecessors(fun.loops[L].header) \cap LoopBlocks(L)) = 1
  THEN CHOOSE p \in predecessors(fun.loops[L].header) \cap LoopBlocks(L) : TRUE
  ELSE 0

\* Loop::isLoopSimplifyForm: a preheader, one latch, and exit blocks entered
\* from inside the loop only
isLoopSimplifyForm(L) ==
  /\ getLoopPreheader(L) # 0
  /\ getLoopLatch(L) # 0
  /\ \A x \in Range(getExitBlocks(L)) : predecessors(x) \subseteq LoopBlocks(L)

\* ---- createTopOrderingFrom
NoOrder == [Result |-> << >>, Visited |-> {}]

insertVisited(st, BB) == [st EXCEPT !.Visited = @ \cup {BB}]
push_back(st, BB) == [st EXCEPT !.Result = Append(@, BB)]

RECURSIVE createTopOrderingFrom(_, _, _)
RECURSIVE createTopOrderingOver(_, _, _, _)
createTopOrderingOver(BBs, k, st, MyL) ==
  IF k > Len(BBs) THEN st
  ELSE createTopOrderingOver(BBs, k + 1, createTopOrderingFrom(BBs[k], st, MyL), MyL)

\* the depth-first order without the loop bookkeeping
createTopOrderingPlain(BB, st, MyL) ==
  IF BB \in st.Visited THEN st
  ELSE push_back(createTopOrderingOver(fun.succ[BB], 1, insertVisited(st, BB), getLoopFor(BB)), BB)

createTopOrderingFrom(BB, st, MyL) ==
  IF MyL # getLoopFor(BB) /\ (getLoopFor(BB) = NoLoop \/ containsLoop(getLoopFor(BB), MyL)) THEN st
  ELSE IF BB \in st.Visited THEN st
  ELSE push_back(
         createTopOrderingOver(fun.succ[BB], 1,
           IF MyL # getLoopFor(BB)
           THEN createTopOrderingOver(getExitBlocks(getLoopFor(BB)), 1, insertVisited(st, BB), MyL)
           ELSE insertVisited(st, BB),
           getLoopFor(BB)),
         BB)

reverse(sq) == [k \in 1 .. Len(sq) |-> sq[Len(sq) + 1 - k]]

TopOrderedBlocks == reverse(createTopOrderingFrom(fun.entry, NoOrder, NoLoop).Result)

\* DenseMap::operator[]: the index given to the block, 0 for a key never set
BBIndices(T, BB) ==
  IF \E i \in DOMAIN T : T[i] = BB THEN (CHOOSE i \in DOMAIN T : T[i] = BB) - 1 ELSE 0

BlockSeq == [b \in 1 .. Len(fun.succ) |-> b]

ShadowBBInvar(T, i) ==
  [BB |-> T[i + 1], idx |-> i,
   succIdxs |-> [j \in DOMAIN fun.succ[T[i + 1]] |-> BBIndices(T, fun.succ[T[i + 1]][j])],
   predIdxs |-> [j \in DOMAIN SelectSeq(BlockSeq, LAMBDA p : p \in predecessors(T[i + 1])) |->
                   BBIndices(T, SelectSeq(BlockSeq, LAMBDA p : p \in predecessors(T[i + 1]))[j])],
   outerScope |-> NoLoop, naturalScope |-> NoLoop]

\* as if every predecessor that comes later drew the warning
predecessorWarningAlways(T) ==
  \E i \in 0 .. (Len(T) - 1) : \E p \in predecessors(T[i + 1]) : BBIndices(T, p) > i

\* the warning of the predecessor loop: some predecessor comes after its
\* successor, and the successor is not the header of its loop
predecessorWarning(T) ==
  \E i \in 0 .. (Len(T) - 1) :
    \E p \in predecessors(T[i + 1]) :
      /\ BBIndices(T, p) > i
      /\ \/ getLoopFor(T[i + 1]) = NoLoop
         \/ T[i + 1] # fun.loops[getLoopFor(T[i + 1])].header

\* ---- getLoopInfo
ShadowLoopInvar(T, L) ==
  [headerIdx |-> BBIndices(T, fun.loops[L].header),
   preheaderIdx |-> BBIndices(T, getLoopPreheader(L)),
   latchIdx |-> BBIndices(T, getLoopLatch(L)),
   nBlocks |-> Len(fun.loops[L].blocks),
   parent |-> fun.loops[L].parent,
   exitBlocks |-> [k \in DOMAIN getExitBlocks(L) |-> BBIndices(T, getExitBlocks(L)[k])]]

\* the loops in the order getLoopInfo meets them: a loop before its children
RECURSIVE LoopsPreOrder(_)
LoopsPreOrder(S) ==
  IF S = {} THEN << >>
  ELSE LET l == CHOOSE x \in S : fun.loops[x].parent \notin S
       IN <<l>> \o LoopsPreOrder(S \ {l})

\* lines 96-101 for one loop: the blocks at headerIdx .. headerIdx + nBlocks - 1
\* take the loop as their scope
setScope(T, BBs, L) ==
  [i \in DOMAIN BBs |->
     IF /\ i >= BBIndices(T, fun.loops[L].header)
        /\ i < BBIndices(T, fun.loops[L].header) + Len(fun.loops[L].blocks)
     THEN [BBs[i] EXCEPT !.outerScope = L, !.naturalScope = L]
     ELSE BBs[i]]

RECURSIVE getLoopInfo(_, _, _, _)
getLoopInfo(T, BBs, order, k) ==
  IF k > Len(order) THEN BBs
  ELSE getLoopInfo(T, setScope(T, BBs, order[k]), order, k + 1)

\* the scope loop of getLoopInfo writes past the end of BBs
scopeOverrun(T) ==
  \E L \in DOMAIN fun.loops :
    BBIndices(T, fun.loops[L].header) + Len(fun.loops[L].blocks) > Len(T)

\* ---- frame size
RECURSIVE leadingAllocas(_, _)
leadingAllocas(insts, k) ==
  IF k > Len(insts) \/ insts[k] # "alloca" THEN 0 ELSE 1 + leadingAllocas(insts, k + 1)

anyAlloca == \E b \in FunBlocks : \E k \in DOMAIN fun.insts[b] : fun.insts[b][k] = "alloca"

\* as if the magic value were chosen when an alloca exists somewhere
frameSizeInverted ==
  IF leadingAllocas(fun.insts[fun.entry], 1) = 0 /\ fun.RootIA
  THEN (IF anyAlloca THEN -1 ELSE 0)
  ELSE leadingAllocas(fun.insts[fun.entry], 1)

frameSize ==
  IF leadingAllocas(fun.insts[fun.entry], 1) = 0 /\ fun.RootIA
  THEN (IF anyAlloca THEN 0 ELSE -1)
  ELSE leadingAllocas(fun.insts[fun.entry], 1)

\* ---- getFunctionInvarInfo
Aborted(why) == [built |-> FALSE, aborted |-> why]

getFunctionInvarInfo(T) ==
  IF \E L \in DOMAIN fun.loops : ~isLoopSimplifyForm(L)
  THEN Aborted("Don't forget to run loopsimplify and lcssa first!")
  ELSE [built |-> TRUE,
        BBs |-> getLoopInfo(T, [i \in 0 .. (Len(T) - 1) |-> ShadowBBInvar(T, i)],
                            LoopsPreOrder(DOMAIN fun.loops), 1),
        LInfo |-> [L \in DOMAIN fun.loops |-> ShadowLoopInvar(T, L)],
        warned |-> predecessorWarning(T),
        overrun |-> scopeOverrun(T),
        frameSize |-> frameSize]

GetFunctionInvarInfo ==
  /\ mode = "shadow"
  /\ functionInfo = NoInfo
  /\ functionInfo' = getFunctionInvarInfo(TopOrderedBlocks)
  /\ UNCHANGED <<fun, shadows, mode, hcf, maps, alive, orig, lastMerge, rd, rdOut>>
  /\ UNCHANGED walkVars

\* ---- the functions analysed
\* successor orders: the blocks in flip have their successors the other way round
flipSucc(succ, flip) == [b \in DOMAIN succ |-> IF b \in flip THEN reverse(succ[b]) ELSE succ[b]]

\* loop block orders: header first, the rest as given or the other way round
flipLoops(loops, rev) ==
  [l \in DOMAIN loops |->
     IF rev THEN [loops[l] EXCEPT !.blocks = <<loops[l].header>> \o reverse(Tail(loops[l].blocks))]
     ELSE loops[l]]

\* straight line
ShapeLine == LLVMFunction(2, << << >>, <<3>>, <<1>> >>, NoLLVMLoops, TRUE)
\* diamond
ShapeDiamond == LLVMFunction(1, << <<3, 2>>, <<4>>, <<4>>, << >> >>, NoLLVMLoops, TRUE)
\* one loop: header 1, latch 4
ShapeLoop ==
  LLVMFunction(3, << <<4, 2>>, << >>, <<1>>, <<1>> >>,
               [l \in {"L1"} |-> LLVMLoop(1, <<1, 4>>, NoLoop)], TRUE)
\* one loop left from a block of its body: header 2, exiting block 4, latch 3
ShapeBodyExit ==
  LLVMFunction(5, << << >>, <<4>>, <<2>>, <<3, 1>>, <<2>> >>,
               [l \in {"L1"} |-> LLVMLoop(2, <<2, 4, 3>>, NoLoop)], TRUE)
\* one loop with a branch in its body: header 2, latch 3
ShapeBodyBranch ==
  LLVMFunction(5, << << >>, <<4, 1>>, <<2>>, <<6, 3>>, <<2>>, <<3>> >>,
               [l \in {"L1"} |-> LLVMLoop(2, <<2, 4, 6, 3>>, NoLoop)], TRUE)
\* a loop in a loop: outer header 5 and latch 4, inner header 2 and latch 6
ShapeNested ==
  LLVMFunction(1, << <<5>>, <<6, 4>>, <<2>>, <<5>>, <<3, 7>>, <<2>>, << >> >>,
               [l \in {"L1", "L2"} |->
                  IF l = "L1" THEN LLVMLoop(5, <<5, 3, 2, 6, 4>>, NoLoop)
                  ELSE LLVMLoop(2, <<2, 6>>, "L1")], TRUE)
\* the same with an edge from the inner loop out of both loops
ShapeNestedExit ==
  LLVMFunction(1, << <<5>>, <<6, 4>>, <<2>>, <<5>>, <<3, 7>>, <<2, 8>>, << >>, << >> >>,
               [l \in {"L1", "L2"} |->
                  IF l = "L1" THEN LLVMLoop(5, <<5, 3, 2, 6, 4>>, NoLoop)
                  ELSE LLVMLoop(2, <<2, 6>>, "L1")], TRUE)
\* one loop after another
ShapeTwoLoops ==
  LLVMFunction(1, << <<2>>, <<3, 4>>, <<2>>, <<6>>, <<6>>, <<5, 7>>, << >> >>,
               [l \in {"L1", "L2"} |->
                  IF l = "L1" THEN LLVMLoop(2, <<2, 3>>, NoLoop)
                  ELSE LLVMLoop(6, <<6, 5>>, NoLoop)], TRUE)
\* a cycle entered at two blocks: no natural loop, so LoopInfo has none
ShapeIrreducible ==
  LLVMFunction(1, << <<2, 3>>, <<3, 4>>, <<2>>, << >> >>, NoLLVMLoops, FALSE)
\* a loop with two latches: not in simplified form
ShapeTwoLatches ==
  LLVMFunction(1, << <<2>>, <<3, 4>>, <<2>>, <<2, 5>>, << >> >>,
               [l \in {"L1"} |-> LLVMLoop(2, <<2, 3, 4>>, NoLoop)], FALSE)

Shapes == {ShapeLine, ShapeDiamond, ShapeLoop, ShapeBodyExit, ShapeBodyBranch, ShapeNested,
           ShapeNestedExit, ShapeTwoLoops, ShapeIrreducible, ShapeTwoLatches}

Branches(succ) == { b \in DOMAIN succ : Len(succ[b]) = 2 }

\* the entry block starts with n allocas; late puts one more alloca after
\* another instruction of the entry block ("entry") or in each other block
\* ("other")
BlockInsts(isEntry, n, late) ==
  IF isEntry
  THEN [k \in 1 .. n |-> "alloca"] \o (IF late = "entry" THEN <<"other", "alloca", "other">> ELSE <<"other">>)
  ELSE (IF late = "other" THEN <<"other", "alloca", "other">> ELSE <<"other">>)

ShapeFunctions(S) ==
  { [entry |-> S.entry, succ |-> flipSucc(S.succ, flip), loops |-> flipLoops(S.loops, rev),
     wellNested |-> S.wellNested, RootIA |-> root,
     insts |-> [b \in DOMAIN S.succ |-> BlockInsts(b = S.entry, n, late)]] :
      flip \in SUBSET Branches(S.succ), rev \in BOOLEAN, root \in BOOLEAN,
      n \in 0 .. MaxAllocas, late \in {"none", "entry", "other"} }

LLVMFunctions == UNION { ShapeFunctions(S) : S \in Shapes }

InitShadow ==
  /\ WalkIdle
  /\ mode = "shadow"
  /\ hcf = NoFolder
  /\ maps = MergeIdle
  /\ alive = {}
  /\ orig = MergeIdle
  /\ lastMerge = NoMerge
  /\ rd = ReadIdle
  /\ rdOut = "none"
  /\ fun \in LLVMFunctions
  /\ functionInfo = NoInfo
  /\ shadows = NoShadows

\* ---- prepareShadows, getInst, getInstFalling
\* the contexts over the function: the InlineAttempt and one PeelIteration
\* for each loop, whose parent is the iteration of the loop around it
ShadowContext(kind, L, parent, BBsOffset, nBBs, BBs) ==
  [kind |-> kind, L |-> L, parent |-> parent, BBsOffset |-> BBsOffset, nBBs |-> nBBs, BBs |-> BBs]

\* which blocks of its range a context has created so far: those of its own
\* scope, all of them, or none (BBs[i] is 0 for the others)
CreatedOptions == {"own", "all", "none"}

createdBBs(L, BBsOffset, nBBs, opt) ==
  [k \in 0 .. (nBBs - 1) |->
     opt = "all" \/ (opt = "own" /\ functionInfo.BBs[k + BBsOffset].naturalScope = L)]

InlineAttemptShadows(opt) ==
  ShadowContext("inline", NoLoop, 0, 0, Len(fun.succ), createdBBs(NoLoop, 0, Len(fun.succ), opt))

PeelIterationShadows(L, parent, opt) ==
  ShadowContext("peel", L, parent, functionInfo.LInfo[L].headerIdx, functionInfo.LInfo[L].nBlocks,
                createdBBs(L, functionInfo.LInfo[L].headerIdx, functionInfo.LInfo[L].nBlocks, opt))

ctxOfLoop(order, L) == IF L = NoLoop THEN 1 ELSE 1 + (CHOOSE k \in DOMAIN order : order[k] = L)

prepareShadows(order, opt) ==
  <<InlineAttemptShadows(opt)>> \o
    [k \in DOMAIN order |->
       PeelIterationShadows(order[k], ctxOfLoop(order, fun.loops[order[k]].parent), opt)]

NoInst == [kind |-> "none", ctx |-> 0, blockIdx |-> 0, instIdx |-> 0]
AssertFailed == [kind |-> "assert", ctx |-> 0, blockIdx |-> 0, instIdx |-> 0]
ShadowInstruction(c, blockIdx, instIdx) == [kind |-> "inst", ctx |-> c, blockIdx |-> blockIdx, instIdx |-> instIdx]

NoCall == [c |-> 0, blockIdx |-> 0, instIdx |-> 0, result |-> NoInst]

PrepareShadows ==
  /\ mode = "shadow"
  /\ functionInfo # NoInfo
  /\ functionInfo.built
  /\ ~shadows.prepared
  /\ Len(fun.succ) = Cardinality(DOMAIN functionInfo.BBs)
  /\ \E opt \in CreatedOptions :
       shadows' = [prepared |-> TRUE,
                   ctx |-> prepareShadows(LoopsPreOrder(DOMAIN fun.loops), opt),
                   out |-> NoCall]
  /\ UNCHANGED <<fun, functionInfo, mode, hcf, maps, alive, orig, lastMerge, rd, rdOut>>
  /\ UNCHANGED walkVars

\* getBB(idx, &inScope): whether the index lies in the context's range, and
\* the entry of its BBs array there
inScope(c, idx) ==
  /\ idx >= shadows.ctx[c].BBsOffset
  /\ idx < shadows.ctx[c].BBsOffset + shadows.ctx[c].nBBs

getLocalInst(c, idx, instIdx) ==
  IF ~inScope(c, idx) THEN NoInst
  ELSE IF ~shadows.ctx[c].BBs[idx - shadows.ctx[c].BBsOffset] THEN NoInst
  ELSE ShadowInstruction(c, idx, instIdx)

RECURSIVE getInstFalling(_, _, _)
\* a peel iteration that gives up instead of asking its parent
getInstFallingNoParent(c, BB, instIdx) ==
  IF shadows.ctx[c].kind = "inline"
  THEN (IF BB.outerScope # NoLoop THEN AssertFailed ELSE getLocalInst(c, BB.idx, instIdx))
  ELSE IF BB.outerScope = shadows.ctx[c].L THEN getLocalInst(c, BB.idx, instIdx)
  ELSE NoInst

getInstFalling(c, BB, instIdx) ==
  IF shadows.ctx[c].kind = "inline"
  THEN (IF BB.outerScope # NoLoop THEN AssertFailed ELSE getLocalInst(c, BB.idx, instIdx))
  ELSE IF BB.outerScope = shadows.ctx[c].L THEN getLocalInst(c, BB.idx, instIdx)
  ELSE getInstFalling(shadows.ctx[c].parent, BB, instIdx)

getInst(c, blockIdx, instIdx) ==
  IF ~inScope(c, blockIdx) THEN getInstFalling(c, functionInfo.BBs[blockIdx], instIdx)
  ELSE IF ~shadows.ctx[c].BBs[blockIdx - shadows.ctx[c].BBsOffset] THEN NoInst
  ELSE ShadowInstruction(c, blockIdx, instIdx)

\* getInst changes no field of any context: one call from each prepared state
\* stands for all of them
GetInst ==
  /\ mode = "shadow"
  /\ shadows.prepared
  /\ shadows.out = NoCall
  /\ \E c \in DOMAIN shadows.ctx :
       \E blockIdx \in DOMAIN functionInfo.BBs :
         \E instIdx \in 0 .. (Len(fun.insts[functionInfo.BBs[blockIdx].BB]) - 1) :
           shadows' = [shadows EXCEPT !.out = [c |-> c, blockIdx |-> blockIdx, instIdx |-> instIdx,
                                               result |-> getInst(c, blockIdx, instIdx)]]
  /\ UNCHANGED <<fun, functionInfo, mode, hcf, maps, alive, orig, lastMerge, rd, rdOut>>
  /\ UNCHANGED walkVars

NextShadow == GetFunctionInvarInfo \/ PrepareShadows \/ GetInst

SpecShadow == InitShadow /\ [][NextShadow]_vars

\* ---- the order and the loop records, looked at from outside
Built == functionInfo # NoInfo /\ functionInfo.built

IndicesOf(S) == { i \in DOMAIN functionInfo.BBs : functionInfo.BBs[i].BB \in S }

\* C17: for a function in simplified, well-nested natural-loop form, every
\* block has one index, the indices of each loop's blocks (nested loops'
\* blocks included) are exactly headerIdx .. headerIdx + nBlocks - 1 with the
\* header at headerIdx, and each block's naturalScope is its innermost loop
C17_LoopBlocksContiguous ==
  (Built /\ fun.wellNested) =>
    /\ \A b \in FunBlocks : Cardinality(IndicesOf({b})) = 1
    /\ \A L \in DOMAIN fun.loops :
         /\ IndicesOf(LoopBlocks(L)) =
              functionInfo.LInfo[L].headerIdx ..
                (functionInfo.LInfo[L].headerIdx + functionInfo.LInfo[L].nBlocks - 1)
         /\ functionInfo.BBs[functionInfo.LInfo[L].headerIdx].BB = fun.loops[L].header
    /\ \A i \in DOMAIN functionInfo.BBs :
         functionInfo.BBs[i].naturalScope = getLoopFor(functionInfo.BBs[i].BB)
    /\ ~functionInfo.overrun

C17_Witness ==
  /\ Built
  /\ fun.wellNested
  /\ \E L \in DOMAIN fun.loops :
       /\ fun.loops[L].parent # NoLoop
       /\ \E x \in Range(getExitBlocks(L)) : x \notin LoopBlocks(fun.loops[L].parent)
       /\ functionInfo.LInfo[L].headerIdx > functionInfo.LInfo[fun.loops[L].parent].headerIdx

\* in the model built, a predecessor listed with a greater index than its
\* successor's only enters the header of the successor's loop
LaterPredsEnterHeaders ==
  \A i \in DOMAIN functionInfo.BBs :
    \A j \in DOMAIN functionInfo.BBs[i].predIdxs :
      functionInfo.BBs[i].predIdxs[j] > i =>
        /\ functionInfo.BBs[i].naturalScope # NoLoop
        /\ functionInfo.LInfo[functionInfo.BBs[i].naturalScope].headerIdx = i

EntryAllocas ==
  CHOOSE n \in 0 .. Len(fun.insts[fun.entry]) :
    /\ \A k \in 1 .. n : fun.insts[fun.entry][k] = "alloca"
    /\ n = Len(fun.insts[fun.entry]) \/ fun.insts[fun.entry][n + 1] # "alloca"

\* C19: frameSize is the number of allocas the entry block starts with,
\* except that it is the sentinel -1 when that number is zero and the
\* function has an alloca somewhere
C19_SentinelWhenAllocaElsewhere ==
  Built => functionInfo.frameSize = (IF EntryAllocas = 0 /\ anyAlloca THEN -1 ELSE EntryAllocas)

\* C19, amended: frameSize is the number of allocas the entry block starts
\* with, except that it is the sentinel -1 when that number is zero, the
\* function has no alloca anywhere and the root context already exists
C19_SentinelWhenNoAlloca ==
  Built => functionInfo.frameSize =
             (IF EntryAllocas = 0 /\ ~anyAlloca /\ fun.RootIA THEN -1 ELSE EntryAllocas)

C19_Witness ==
  /\ Built
  /\ EntryAllocas = 0
  /\ anyAlloca
  /\ fun.RootIA
  /\ functionInfo.frameSize = 0

\* the context and its parents, up to the InlineAttempt
RECURSIVE UpFrom(_)
UpFrom(c) == IF shadows.ctx[c].parent = 0 THEN {c} ELSE {c} \cup UpFrom(shadows.ctx[c].parent)

\* what the block's own context holds for the instruction
LocalRecord(c, blockIdx, instIdx) ==
  IF shadows.ctx[c].BBs[blockIdx - shadows.ctx[c].BBsOffset] THEN ShadowInstruction(c, blockIdx, instIdx)
  ELSE NoInst

\* the contexts on the way up whose loop is the block's scope
ScopeHolders(c, blockIdx) ==
  { a \in UpFrom(c) : shadows.ctx[a].kind = "peel"
                        /\ shadows.ctx[a].L = functionInfo.BBs[blockIdx].outerScope }

Resolved(c, blockIdx, instIdx) ==
  IF inScope(c, blockIdx) THEN LocalRecord(c, blockIdx, instIdx)
  ELSE IF ScopeHolders(c, blockIdx) # {}
  THEN LocalRecord(CHOOSE a \in ScopeHolders(c, blockIdx) : TRUE, blockIdx, instIdx)
  ELSE IF functionInfo.BBs[blockIdx].outerScope = NoLoop
  THEN LocalRecord(CHOOSE a \in UpFrom(c) : shadows.ctx[a].kind = "inline", blockIdx, instIdx)
  ELSE AssertFailed

\* C20: getInst on an index inside the context's range gives the context's
\* own record, or none when the block was not created; on an index outside
\* it gives the record (or none) of the context among its parents whose
\* scope the block belongs to, never of another context, and fails an
\* assertion when the InlineAttempt is reached with a block of a loop
C20_GetInstResolution ==
  (shadows.prepared /\ shadows.out.c # 0) =>
    /\ shadows.out.result = Resolved(shadows.out.c, shadows.out.blockIdx, shadows.out.instIdx)
    /\ shadows.out.result.kind = "inst" => shadows.out.result.ctx \in UpFrom(shadows.out.c)

C20_Witness ==
  /\ shadows.prepared
  /\ shadows.out.c # 0
  /\ shadows.out.result.kind = "inst"
  /\ shadows.out.result.ctx # shadows.out.c
  /\ shadows.out.result.ctx # shadows.ctx[shadows.out.c].parent

\* an InlineAttempt reached with a block of a loop
C20_WitnessAssert ==
  /\ shadows.prepared
  /\ shadows.out.c # 0
  /\ shadows.out.result = AssertFailed

(***************************************************************************)
(* Copy-on-write, frames and the instructions of updateTLStore             *)
(***************************************************************************)
\* C21: a write through a block (an instruction marking bytes safe, clearing
\* a lock-domain global or clobbering everything, a frame push, a frame pop)
\* never changes a store that has more than one holder: the other holders
\* see what they saw before, and a store is changed in place only when the
\* writing block is its sole holder.
C21_CopyOnWriteIsolation ==
  "shared" \notin hist.violated

\* a block wrote to a store it shared and got a copy of its own, and a block
\* wrote in place to a store it alone held
C21_Witness ==
  /\ hist.runs >= 1
  /\ "copied" \in hist.seen
  /\ "inPlace" \in hist.seen

\* the store S1 knows no more than the store S2: the safe bytes of every
\* object in S1 are safe in S2, and S1 has all-clobbered set whenever S2 has
KnowsNoMore(S1, S2) ==
  /\ S2.allOthersClobbered => S1.allOthersClobbered
  /\ \A V \in Globals :
       (IF S1.m[V] = NoEntry THEN (IF S1.allOthersClobbered THEN {} ELSE Bytes)
        ELSE MapBytes(S1.m[V]))
         \subseteq (IF S2.m[V] = NoEntry THEN (IF S2.allOthersClobbered THEN {} ELSE Bytes)
                    ELSE MapBytes(S2.m[V]))

\* C22: shouldCheckRead is monotone in the store: a read of the load's size
\* at a candidate target that is must-check under the store of the block is
\* must-check under every store that knows no more, and so is the load when
\* shouldCheckLoad classified it must-check.
C22_ShouldCheckReadMonotone ==
  rdOut # "none" =>
    \A S1 \in ReadStores :
      KnowsNoMore(S1, rd.S) =>
        /\ \A i \in 1 .. Len(rd.SI.ptr.vals) :
             shouldCheckRead(rd.SI.ptr.vals[i], rd.SI.size, rd.S)
               => shouldCheckRead(rd.SI.ptr.vals[i], rd.SI.size, S1)
        /\ rdOut = TLS_MUSTCHECK
             => shouldCheckLoad(rd.SI, S1, rd.programSingleThreaded) = TLS_MUSTCHECK

\* a two-byte load of G1 classified must-check from a store with one of the
\* two bytes safe, and stores that know less about G1 and about G2
C22_Witness ==
  /\ rdOut = TLS_MUSTCHECK
  /\ rd.SI.size = 2
  /\ rd.SI.ptr.vals = << IVal(G1, 0) >>
  /\ rd.S.m[G1] # NoEntry /\ MapBytes(rd.S.m[G1]) = {1}
  /\ rd.S.m[G2] # NoEntry /\ MapBytes(rd.S.m[G2]) = Bytes
  /\ \E S1 \in ReadStores :
       /\ KnowsNoMore(S1, rd.S)
       /\ S1.m[G1] = EmptyMap
       /\ S1.m[G2] = NoEntry

\* C23: the visit of an alloca, a non-volatile load, a store, a memset, a
\* memory transfer, a recognised file read or a malloc or realloc call removes
\* no byte from the safe set of any allocation, leaves the all-clobbered flag
\* as it was, adds no byte outside the ranges the instruction touches and
\* leaves the entry of every allocation it does not touch unchanged.
C23_OrdinaryInstructionsOnlyAdd ==
  "ordinary" \notin hist.violated

\* after a yield a file read made a byte of G1 safe and a memset of the
\* whole of G1 added the rest
C23_Witness ==
  /\ hist.runs >= 1
  /\ "ordinaryAdded" \in hist.seen
  /\ prog.fns.main.blocks[0].insts[1].op = "yield"
  /\ Len(prog.fns.main.blocks[0].insts) = 4
  /\ prog.fns.main.blocks[0].insts[2].op = "readfile"
  /\ prog.fns.main.blocks[0].insts[3].op = "memset"
  /\ tlStore[<<1, 0>>] # 0
  /\ stores[tlStore[<<1, 0>>]].allOthersClobbered
  /\ stores[tlStore[<<1, 0>>]].m[G1] = << <<0, ObjSize>> >>

C25_YieldScopes ==
  /\ "yieldScope" \notin hist.violated
  /\ "registered" \notin hist.violated

\* one block with a yield without domain, then a yield with a lock domain
\* that empties the map of G1, then a registered call that is also a file
\* read, a malloc or a realloc
C25_Witness ==
  /\ hist.runs >= 1
  /\ {"clobberAll", "lockDomain", "registeredOrdinary"} \subseteq hist.seen

\* a pessimistic lock walked with everything clobbered, and a registered
\* special function
C25_WitnessPessimistic ==
  /\ hist.runs >= 1
  /\ {"pessimistic", "registeredSpecial"} \subseteq hist.seen

\* the program is 'disabled { yield; load x; write y }; load y': the callee's
\* context is disabled and starts with a yield without scope, and main loads
\* y after the call
DisabledYieldLoadStore ==
  /\ Len(prog.ctx) = 2
  /\ prog.ctx[2].hasCallers
  /\ ~prog.ctx[2].enabled
  /\ Len(prog.fns.callee.blocks[0].insts) = 3
  /\ prog.fns.callee.blocks[0].insts[1] = Yield
  /\ prog.fns.callee.blocks[0].insts[2].op = "load"
  /\ prog.fns.callee.blocks[0].insts[3].op \in {"store", "memset", "readfile", "memcpy"}
  /\ Len(prog.fns.main.blocks[0].insts) = 3
  /\ prog.fns.main.blocks[0].insts[3] = Load(G2, 0, ObjSize, TRUE)

\* C26: a load, store or other ordinary instruction walked in a disabled
\* context leaves the store as it was, and after an analysis of 'disabled
\* { yield; load x; write y }; load y' the load of y in the enabled parent is
\* must-check.
C26_DisabledMakesNothingSafe ==
  /\ "disabled" \notin hist.violated
  /\ (hist.runs >= 1 /\ DisabledYieldLoadStore) => isThreadLocal[<<1, 0, 3>>] = TLS_MUSTCHECK

\* the sequence was analysed: the disabled callee's load and write were
\* walked over a clobbered store
C26_Witness ==
  /\ hist.runs >= 1
  /\ DisabledYieldLoadStore
  /\ "disabledWalked" \in hist.seen
  /\ isThreadLocal[<<1, 0, 3>>] = TLS_MUSTCHECK
  /\ isThreadLocal[<<2, 0, 2>>] = TLS_MUSTCHECK

\* C27: release_assert(brokeOnUnreachableCall) never fails: a block ends its
\* instruction walk without a store only at an inlined call without a live
\* return block, no reference is taken from an absent store for a successor,
\* and no block has an absent store when its path conditions and
\* instructions are about to be analysed.
C27_NoStoreOnlyAfterUnreachableCall ==
  /\ ~hist.assertFailed
  /\ ~hist.nullDeref
  /\ "brokeWithReturn" \notin hist.violated
  /\ "absentStart" \notin hist.violated

\* the walk of main's first block stopped at the call of a callee that never
\* returns: the block is left without a store and its successor is dead
C27_Witness ==
  /\ hist.runs >= 1
  /\ "broke" \in hist.seen
  /\ tlStore[<<1, 0>>] = 0
  /\ prog.fns.main.blocks[0].succIdxs = <<1>>
  /\ ~prog.fns.callee.blocks[0].isRet

\* C29: in a multi-threaded program every visit of a volatile load by
\* TLAnalyseInstruction, in a first pass, in the second pass of an unbounded
\* loop or in a later run, leaves the block's store empty with all-clobbered
\* set, whatever the classification of the load.
C29_VolatileLoadAlwaysYields ==
  "volatile" \notin hist.violated

(***************************************************************************)
(* countTentativeInstructions: the instructions checked against the other  *)
(* threads, counted over the context tree                                  *)
(***************************************************************************)
\* the inner loop of countTentativeInstructions over instructions j.. of block
\* b: those requiresRuntimeCheck2 reports without the special checks (every
\* instruction of the programs has needsRuntimeCheck == RUNTIME_CHECK_NONE)
RECURSIVE countInsts(_, _, _)
countInsts(c, b, j) ==
  IF j > Len(getBBInvar(c, b).insts) THEN 0
  ELSE (IF requiresRuntimeCheck2(c, b, j, FALSE) THEN 1 ELSE 0) + countInsts(c, b, j + 1)

\* the block loop of countTentativeInstructions from index i: absent blocks
\* are passed over, and so is a child loop with a terminated peel attempt
\* (the loops of the programs are not nested: the immediate child loop of the
\* context's loop towards a block is the block's own loop)
RECURSIVE countBlocks(_, _, _)
countBlocks(c, i, ilim) ==
  IF i >= ilim THEN 0
  ELSE IF ~getBB(c, i) THEN countBlocks(c, i + 1, ilim)
  ELSE IF /\ getBBInvar(c, i).naturalScope # Ctx(c).L
          /\ hasPeelAttempt(c, getBBInvar(c, i).naturalScope)
          /\ getPeelAttempt(c, getBBInvar(c, i).naturalScope).terminated
  THEN countBlocks(c, skipLoop(c, getBBInvar(c, i).naturalScope, i, ilim), ilim)
  ELSE countInsts(c, i, 1) + countBlocks(c, i + 1, ilim)

\* the contexts countTentativeInstructions recurses into: the inline children
\* and the iterations of the terminated peel attempts
countedChildren(c) ==
  { t[3] : t \in Ctx(c).inlineChildren }
    \cup UNION { { pa.Iterations[k] : k \in 1 .. Len(pa.Iterations) } :
                 pa \in { q \in Ctx(c).peelChildren : q.terminated } }

\* checkedInstructionsChildren += child->checkedInstructionsChildren
addChildCount(K, c, child) ==
  [K EXCEPT ![c].checkedInstructionsChildren = @ + K[child].checkedInstructionsChildren]

\* IntegrationAttempt::countTentativeInstructions of context c over the
\* counters K; no context of the programs is committed
RECURSIVE countTentativeInstructions(_, _)
RECURSIVE countChildren(_, _, _)
countChildren(K, c, todo) ==
  IF todo = {} THEN K
  ELSE countChildren(addChildCount(countTentativeInstructions(K, Min0(todo)), c, Min0(todo)),
                     c, todo \ {Min0(todo)})

countHere(K, c, n) ==
  [K EXCEPT ![c] = [checkedInstructionsHere |-> n, checkedInstructionsChildren |-> n]]

countTentativeInstructions(K, c) ==
  countChildren(
    countHere(K, c, K[c].checkedInstructionsHere
                      + countBlocks(c, Ctx(c).BBsOffset, Ctx(c).BBsOffset + Ctx(c).nBBs)),
    c, countedChildren(c))

\* the root's countTentativeInstructions(), after an analysis
CountTentativeInstructions ==
  /\ mode = "walk"
  /\ hist.runs >= 1
  /\ hist.counts < MaxCounts
  /\ checked' = countTentativeInstructions(checked, 1)
  /\ hist' = [hist EXCEPT !.counts = @ + 1, !.lastOp = "count"]
  /\ UNCHANGED <<fun, functionInfo, shadows, mode, hcf, prog, stores, tlStore, isThreadLocal,
                 readsTentativeData, tentativeLoadsRun, yieldState,
                 maps, alive, orig, lastMerge, rd, rdOut>>

\* the programs with inline children and with peel attempts, analysed and counted
InitCount == InitOf(CallPrograms \cup PeeledPrograms \cup UnboundedPrograms)

NextCount == FindTentativeLoads \/ CountTentativeInstructions

SpecCount == InitCount /\ [][NextCount]_vars

\* the instructions of context c that require a thread-interference check:
\* those of its blocks outside the child loops with a terminated peel attempt
OwnChecked(c) ==
  { <<b, j>> \in (Ctx(c).BBsOffset .. (Ctx(c).BBsOffset + Ctx(c).nBBs - 1)) \X (1 .. 4) :
      /\ getBB(c, b)
      /\ j <= Len(getBBInvar(c, b).insts)
      /\ ~(/\ getBBInvar(c, b).naturalScope # Ctx(c).L
           /\ hasPeelAttempt(c, getBBInvar(c, b).naturalScope)
           /\ getPeelAttempt(c, getBBInvar(c, b).naturalScope).terminated)
      /\ requiresRuntimeCheck2(c, b, j, FALSE) }

\* the checked instructions of the tree below context c, each once
TreeChecked(c) == UNION { { <<d>> \o k : k \in OwnChecked(d) } : d \in resetSet(c) }

\* the counters of the tree hold the numbers of checked instructions
CountsExact ==
  \A c \in resetSet(1) :
    /\ checked[c].checkedInstructionsHere = Cardinality(OwnChecked(c))
    /\ checked[c].checkedInstructionsChildren = Cardinality(TreeChecked(c))

\* C28: after countTentativeInstructions on the root, called once or
\* repeatedly, checkedInstructionsHere of every context of the tree is the
\* number of its own instructions that require a thread-interference check,
\* and checkedInstructionsChildren is that number plus the totals of its
\* inline children and of the iterations of its terminated peel attempts.
C28_CountsAfterAnyNumberOfCalls == hist.lastOp = "count" => CountsExact

\* the first call alone leaves exact counters
CountsExactAfterFirstCall == (hist.lastOp = "count" /\ hist.counts = 1) => CountsExact


(***************************************************************************)
(* SpecBenefit: the constant-folding benefit estimator of                  *)
(* HypotheticalConstantFolder.cpp.  The recursive calls are kept as frames *)
(* on a stack, the next call to make on top: every call of the source is   *)
(* made from a loop that does nothing else after the call returns, so the  *)
(* frames are taken in the order of the calls.                             *)
(***************************************************************************)
MaxEliminatedEdges == 8   \* entries of eliminatedEdges the estimator is followed for

\* a Constant*: a known constant, or null for a constant of unknown value
KnownConstant(c) == [null |-> FALSE, c |-> c]
NullConstant == [null |-> TRUE, c |-> 0]

\* the operands of an instruction: a Constant, an Instruction, an Argument
ConstantOp(c) == [kind |-> "constant", c |-> c, v |-> 0]
InstOp(v) == [kind |-> "inst", c |-> 0, v |-> v]
ArgOp(v) == [kind |-> "arg", c |-> 0, v |-> v]

\* a Value of the function: an argument (parent 0) or an instruction of block
\* parent; bbs are the successors of a branch and the incoming blocks of a PHI
Value(kind, parent, ops, bbs) == [kind |-> kind, parent |-> parent, ops |-> ops, bbs |-> bbs]

\* the values of a set of numbers in ascending order
RECURSIVE Ascending(_)
Ascending(S) == IF S = {} THEN << >> ELSE <<Min0(S)>> \o Ascending(S \ {Min0(S)})

\* the terminator of block BB, its successors and the predecessors of BB
getTerminator(F, BB) == F.values[F.blocks[BB][Len(F.blocks[BB])]]
successors(F, BB) == getTerminator(F, BB).bbs
predsOf(F, BB) ==
  { P \in 1 .. Len(F.blocks) : \E i \in 1 .. Len(successors(F, P)) : successors(F, P)[i] = BB }

\* the use list of value v: the instructions with v among their operands
uses(F, v) ==
  Ascending({ I \in 1 .. Len(F.values) :
                \E i \in 1 .. Len(F.values[I].ops) :
                  F.values[I].ops[i].kind # "constant" /\ F.values[I].ops[i].v = v })

\* blockIsDead(BB, ignoreEdges): every edge into BB is ignored
blockIsDead(F, BB, ignoreEdges) ==
  \A P \in predsOf(F, BB) : <<P, BB>> \in ignoreEdges

\* the frames: calls still to be made and loop bodies still to be run
Frame(kind, a, b, c) == [kind |-> kind, a |-> a, b |-> b, c |-> c]
RemoveFrame(BB, BBPred) == Frame("remove", BB, BBPred, NullConstant)
PHIFrame(PN) == Frame("phi", PN, 0, NullConstant)
ConstantFrame(ArgV, ArgC) == Frame("constant", ArgV, 0, ArgC)
UserFrame(ArgV, I, ArgC) == Frame("user", ArgV, I, ArgC)
EliminatedFrame(I) == Frame("eliminated", I, 0, NullConstant)
BlockFrame(BB) == Frame("block", BB, 0, NullConstant)
LoadFrame(LI) == Frame("load", LI, 0, NullConstant)

Calls(H, frames) == [H EXCEPT !.stack = frames \o @]
Returned(H) == [H EXCEPT !.stack = Tail(@)]

\* Instruction::mayHaveSideEffects and Instruction::mayReadFromMemory
mayHaveSideEffects(SI) == SI.kind = "store"
mayReadFromMemory(SI) == SI.kind = "load"

\* realGetRemoveBlockPredBenefit(BB, BBPred)
realGetRemoveBlockPredBenefit(H, BB, BBPred) ==
  IF BB \in H.outBlocks
  THEN [H EXCEPT !.eliminatedEdges = Append(@, <<BBPred, BB>>)]
  ELSE IF blockIsDead(H.F, BB, H.ignoreEdges \cup {<<BBPred, BB>>})
  THEN [H EXCEPT !.eliminatedEdges = Append(@, <<BBPred, BB>>),
                 !.ignoreEdges = @ \cup {<<BBPred, BB>>},
                 !.eliminatedInstructions =
                   @ \o SelectSeq(H.F.blocks[BB],
                                  LAMBDA v : /\ H.F.values[v].kind # "phi"
                                             /\ v \notin DOMAIN H.constInstructions),
                 !.stack = [i \in 1 .. Len(successors(H.F, BB)) |->
                              RemoveFrame(successors(H.F, BB)[i], BB)] \o @]
  ELSE [H EXCEPT !.eliminatedEdges = Append(@, <<BBPred, BB>>),
                 !.ignoreEdges = @ \cup {<<BBPred, BB>>},
                 !.stack = [i \in 1 .. Len(SelectSeq(H.F.blocks[BB],
                                                     LAMBDA v : H.F.values[v].kind = "phi")) |->
                              PHIFrame(SelectSeq(H.F.blocks[BB],
                                                 LAMBDA v : H.F.values[v].kind = "phi")[i])] \o @]

\* PHINode::getIncomingValueForBlock
getIncomingValueForBlock(PN, BB) ==
  PN.ops[CHOOSE i \in 1 .. Len(PN.bbs) : PN.bbs[i] = BB]

\* the constant an operand stands for in getPHINodeBenefit, null for none
predConst(H, op) ==
  IF op.kind = "constant" THEN KnownConstant(op.c)
  ELSE IF op.kind = "inst" /\ op.v \in DOMAIN H.constInstructions THEN H.constInstructions[op.v]
  ELSE NullConstant

\* the predecessor loop of getPHINodeBenefit from the k-th predecessor on
RECURSIVE phiConstValue(_, _, _, _, _)
phiConstValue(H, PN, preds, k, constValue) ==
  IF k > Len(preds) THEN constValue
  ELSE IF <<preds[k], H.F.values[PN].parent>> \in H.ignoreEdges
  THEN phiConstValue(H, PN, preds, k + 1, constValue)
  ELSE IF predConst(H, getIncomingValueForBlock(H.F.values[PN], preds[k])).null THEN NullConstant
  ELSE IF constValue.null
  THEN phiConstValue(H, PN, preds, k + 1,
                     predConst(H, getIncomingValueForBlock(H.F.values[PN], preds[k])))
  ELSE IF predConst(H, getIncomingValueForBlock(H.F.values[PN], preds[k])) # constValue
  THEN NullConstant
  ELSE phiConstValue(H, PN, preds, k + 1, constValue)

\* getPHINodeBenefit(PN)
getPHINodeBenefit(H, PN) ==
  IF PN \in DOMAIN H.constInstructions THEN H
  ELSE IF phiConstValue(H, PN, Ascending(predsOf(H.F, H.F.values[PN].parent)), 1,
                        NullConstant).null
  THEN H
  ELSE Calls(H, << ConstantFrame(PN,
                     phiConstValue(H, PN, Ascending(predsOf(H.F, H.F.values[PN].parent)),
                                   1, NullConstant)) >>)

\* realGetConstantBenefit(ArgV, ArgC) up to its loop over the users
realGetConstantBenefit(H, ArgV, ArgC) ==
  IF H.F.values[ArgV].kind # "arg" /\ H.F.values[ArgV].parent \in H.outBlocks THEN H
  ELSE IF ArgV \in DOMAIN H.constInstructions THEN H
  ELSE [H EXCEPT !.constInstructions = (ArgV :> ArgC) @@ @,
                 !.eliminatedInstructions =
                   IF /\ H.F.values[ArgV].kind \notin {"arg", "phi"}
                      /\ ~mayHaveSideEffects(H.F.values[ArgV])
                   THEN Append(@, ArgV) ELSE @,
                 !.stack = [i \in 1 .. Len(uses(H.F, ArgV)) |->
                              UserFrame(ArgV, uses(H.F, ArgV)[i], ArgC)] \o @]

\* the constant folding library on an instruction whose operands are known
\* constants: a comparison of two constants folds, a store does not
ConstantFold(H, SI) ==
  IF SI.kind = "cmp"
  THEN KnownConstant(IF predConst(H, SI.ops[1]).c = predConst(H, SI.ops[2]).c THEN 1 ELSE 0)
  ELSE NullConstant

\* the operands of the user are all constants or instructions made constant
allOperandsConstant(H, SI) ==
  \A i \in 1 .. Len(SI.ops) :
    \/ SI.ops[i].kind = "constant"
    \/ SI.ops[i].kind = "inst" /\ SI.ops[i].v \in DOMAIN H.constInstructions

someArgumentUnknownConstant(H, SI) ==
  \E i \in 1 .. Len(SI.ops) :
    /\ SI.ops[i].kind = "inst"
    /\ SI.ops[i].v \in DOMAIN H.constInstructions
    /\ H.constInstructions[SI.ops[i].v].null

\* the constant of an ordinary user, null when one of the operands is a
\* constant of unknown value
newConst(H, SI) == IF someArgumentUnknownConstant(H, SI) THEN NullConstant ELSE ConstantFold(H, SI)

\* the body of the loop of realGetConstantBenefit for the user I of ArgV
visitUser(H, I, ArgC) ==
  IF blockIsDead(H.F, H.F.values[I].parent, H.ignoreEdges) THEN H
  ELSE IF H.F.values[I].kind = "br"
  THEN IF ArgC.null THEN Calls(H, << EliminatedFrame(I) >>)
       ELSE Calls(H, [i \in 1 .. Len(SelectSeq(H.F.values[I].bbs,
                                               LAMBDA t : t # H.F.values[I].bbs[IF ArgC.c = 0 THEN 2 ELSE 1])) |->
                        RemoveFrame(SelectSeq(H.F.values[I].bbs,
                                              LAMBDA t : t # H.F.values[I].bbs[IF ArgC.c = 0 THEN 2 ELSE 1])[i],
                                    H.F.values[I].parent)]
                       \o << EliminatedFrame(I) >>)
  ELSE IF H.F.values[I].kind = "phi" THEN Calls(H, << PHIFrame(I) >>)
  ELSE IF ~allOperandsConstant(H, H.F.values[I]) THEN H
  ELSE IF /\ newConst(H, H.F.values[I]).null
          /\ (mayReadFromMemory(H.F.values[I]) \/ mayHaveSideEffects(H.F.values[I]))
  THEN H
  ELSE Calls(H, << ConstantFrame(I, newConst(H, H.F.values[I])) >>)

\* tryForwardLoad(LI, Res) with the instruction dep of Res, 0 for a result
\* that names none; the result is or-ed into anyStoreForwardingBenefits
tryForwardLoad(H, LI, dep) ==
  IF dep = 0 THEN H
  ELSE IF H.F.values[dep].kind = "store"
  THEN IF H.F.values[dep].ops[1].kind = "constant"
       THEN [H EXCEPT !.eliminatedInstructions = Append(@, LI),
                      !.anyStoreForwardingBenefits = TRUE,
                      !.stack = << ConstantFrame(LI, KnownConstant(H.F.values[dep].ops[1].c)) >> \o @]
       ELSE H
  ELSE IF H.F.values[dep].kind = "load" /\ dep \in DOMAIN H.constInstructions
  THEN [H EXCEPT !.eliminatedInstructions = Append(@, LI),
                 !.anyStoreForwardingBenefits = TRUE,
                 !.stack = << ConstantFrame(LI, H.constInstructions[dep]) >> \o @]
  ELSE H

\* the instructions the memory dependence analysis may name for a load: the
\* analyser is outside the repository's sources, and every answer it can give
\* is followed (0: a clobber, or no single defining instruction)
Dependencies(F, LI) ==
  {0} \cup { v \in 1 .. Len(F.values) : v # LI /\ F.values[v].kind \in {"store", "load"} }

\* the body of the block loop of getBenefit: the loads of a block under
\* consideration that is not dead
visitBlock(H, BB) ==
  IF BB \in H.outBlocks \/ blockIsDead(H.F, BB, H.ignoreEdges) THEN H
  ELSE Calls(H, [i \in 1 .. Len(SelectSeq(H.F.blocks[BB],
                                          LAMBDA v : H.F.values[v].kind = "load")) |->
                   LoadFrame(SelectSeq(H.F.blocks[BB],
                                       LAMBDA v : H.F.values[v].kind = "load")[i])])

\* ---- the steps
TopFrame == hcf.stack[1]
AtFrame(kind) ==
  /\ mode = "benefit"
  /\ hcf.pc = "running"
  /\ hcf.stack # << >>
  /\ TopFrame.kind = kind

FolderOnly ==
  UNCHANGED <<mode, maps, alive, orig, lastMerge, rd, rdOut, fun, functionInfo, shadows>>
    /\ UNCHANGED walkVars

\* getBenefit(roots) up to the store forwarding loop: each root is looked up
\* with constInstructions[root], which enters a root the map does not hold
\* with a null constant, and handed to getConstantBenefit
GetBenefit ==
  /\ mode = "benefit"
  /\ hcf.pc = "idle"
  /\ hcf' = [hcf EXCEPT !.pc = "running",
                        !.constInstructions =
                          @ @@ [r \in { hcf.roots[i] : i \in 1 .. Len(hcf.roots) } |-> NullConstant],
                        !.anyStoreForwardingBenefits = TRUE,
                        !.stack = [i \in 1 .. Len(hcf.roots) |->
                                     ConstantFrame(hcf.roots[i],
                                       IF hcf.roots[i] \in DOMAIN hcf.constInstructions
                                       THEN hcf.constInstructions[hcf.roots[i]]
                                       ELSE NullConstant)]]
  /\ FolderOnly

GetRemoveBlockPredBenefit ==
  /\ AtFrame("remove")
  /\ Len(hcf.eliminatedEdges) < MaxEliminatedEdges
  /\ hcf' = realGetRemoveBlockPredBenefit(Returned(hcf), TopFrame.a, TopFrame.b)
  /\ FolderOnly

GetPHINodeBenefit ==
  /\ AtFrame("phi")
  /\ hcf' = getPHINodeBenefit(Returned(hcf), TopFrame.a)
  /\ FolderOnly

GetConstantBenefit ==
  /\ AtFrame("constant")
  /\ hcf' = realGetConstantBenefit(Returned(hcf), TopFrame.a, TopFrame.c)
  /\ FolderOnly

VisitUser ==
  /\ AtFrame("user")
  /\ hcf' = visitUser(Returned(hcf), TopFrame.b, TopFrame.c)
  /\ FolderOnly

\* the branch or switch whose operand became constant is eliminated, after
\* the calls for its other targets have returned
UserEliminated ==
  /\ AtFrame("eliminated")
  /\ hcf' = [Returned(hcf) EXCEPT !.eliminatedInstructions = Append(@, TopFrame.a)]
  /\ FolderOnly

\* one round of the store forwarding loop begins, or the loop ends
StoreForwardingRound ==
  /\ mode = "benefit"
  /\ hcf.pc = "running"
  /\ hcf.stack = << >>
  /\ hcf' = IF hcf.anyStoreForwardingBenefits
            THEN [hcf EXCEPT !.anyStoreForwardingBenefits = FALSE,
                             !.rounds = @ + 1,
                             !.stack = [BB \in 1 .. Len(hcf.F.blocks) |-> BlockFrame(BB)]]
            ELSE [hcf EXCEPT !.pc = "done"]
  /\ FolderOnly

VisitBlock ==
  /\ AtFrame("block")
  /\ hcf' = visitBlock(Returned(hcf), TopFrame.a)
  /\ FolderOnly

\* a load of the round: passed over when already constant, else forwarded
\* from the instruction the dependence analysis names
ForwardLoad ==
  /\ AtFrame("load")
  /\ \E dep \in Dependencies(hcf.F, TopFrame.a) :
       hcf' = IF TopFrame.a \in DOMAIN hcf.constInstructions THEN Returned(hcf)
              ELSE tryForwardLoad(Returned(hcf), TopFrame.a, dep)
  /\ FolderOnly

\* ---- the functions: entry (a store), a block with a load, a comparison of
\* it and a branch on the comparison, a block with a PHI, a load and a branch
\* that goes round or leaves, and the exit block with a PHI and a store.  The
\* third block is its own successor ("self"), or goes round through a fifth
\* block ("cycle"), or the fifth block leaves to the exit ("diamond").
BenefitFunction(shape, sc, k5, c9, pback) ==
  [values |->
     << Value("arg", 0, << >>, << >>),
        Value("store", 1, <<sc, ConstantOp(0)>>, << >>),
        Value("br", 1, << >>, <<2>>),
        Value("load", 2, <<ConstantOp(0)>>, << >>),
        Value("cmp", 2, <<InstOp(4), ConstantOp(k5)>>, << >>),
        Value("br", 2, <<InstOp(5)>>, <<3, 4>>),
        Value("phi", 3,
              IF shape = "diamond" THEN <<ConstantOp(0)>> ELSE <<ConstantOp(0), pback>>,
              IF shape = "diamond" THEN <<2>> ELSE IF shape = "self" THEN <<2, 3>> ELSE <<2, 5>>),
        Value("load", 3, <<ConstantOp(0)>>, << >>),
        Value("br", 3, <<c9>>, <<IF shape = "self" THEN 3 ELSE 5, 4>>),
        Value("phi", 4,
              IF shape = "diamond" THEN <<ConstantOp(0), InstOp(5), ConstantOp(0)>>
              ELSE <<ConstantOp(0), InstOp(5)>>,
              IF shape = "diamond" THEN <<2, 3, 5>> ELSE <<2, 3>>),
        Value("store", 4, <<InstOp(10), ConstantOp(0)>>, << >>),
        Value("ret", 4, << >>, << >>) >>
     \o (IF shape = "self" THEN << >>
         ELSE << Value("br", 5, << >>, <<IF shape = "cycle" THEN 3 ELSE 4>>) >>),
   blocks |->
     << <<2, 3>>, <<4, 5, 6>>, <<7, 8, 9>>, <<10, 11, 12>> >>
     \o (IF shape = "self" THEN << >> ELSE << <<13>> >>)]

BenefitFunctions ==
  { BenefitFunction(shape, sc, k5, c9, pback) :
      shape \in {"self", "cycle", "diamond"},
      sc \in {ConstantOp(0), ConstantOp(1), ArgOp(1)},
      k5 \in {0, 1},
      c9 \in {InstOp(8), InstOp(7)},
      pback \in {ConstantOp(0), InstOp(8)} }

\* a HypotheticalConstantFolder made for a function, before getBenefit
InitBenefit ==
  /\ WalkIdle
  /\ ShadowIdle
  /\ mode = "benefit"
  /\ maps = MergeIdle
  /\ alive = {}
  /\ orig = MergeIdle
  /\ lastMerge = NoMerge
  /\ rd = ReadIdle
  /\ rdOut = "none"
  /\ \E F \in BenefitFunctions, out \in {{}, {4}}, known \in BOOLEAN :
       hcf = [pc |-> "idle", F |-> F, outBlocks |-> out, roots |-> <<1>>,
              ignoreEdges |-> {},
              constInstructions |-> IF known THEN (1 :> KnownConstant(1)) ELSE << >>,
              eliminatedEdges |-> << >>, eliminatedInstructions |-> << >>,
              anyStoreForwardingBenefits |-> TRUE, rounds |-> 0, stack |-> << >>]

NextBenefit ==
  \/ GetBenefit
  \/ GetRemoveBlockPredBenefit
  \/ GetPHINodeBenefit
  \/ GetConstantBenefit
  \/ VisitUser
  \/ UserEliminated
  \/ StoreForwardingRound
  \/ VisitBlock
  \/ ForwardLoad

\* the estimator runs on: a call is made whenever one is due
SpecBenefit == InitBenefit /\ [][NextBenefit]_vars /\ WF_vars(NextBenefit)

RECURSIVE DeadReach(_, _, _)
DeadReach(H, ig, S) ==
  IF \A P \in S : (P \notin H.outBlocks /\ blockIsDead(H.F, P, ig)) =>
                    \A i \in 1 .. Len(successors(H.F, P)) : successors(H.F, P)[i] \in S
  THEN S
  ELSE DeadReach(H, ig,
         S \cup UNION { { successors(H.F, P)[i] : i \in 1 .. Len(successors(H.F, P)) } :
                        P \in { Q \in S : Q \notin H.outBlocks /\ blockIsDead(H.F, Q, ig) } })

\* the call getRemoveBlockPredBenefit(BB, BBPred) that is due finds BB dead,
\* and the calls it makes for the successors of dead blocks lead to the same
\* call again, the ignored edges being what they were
DeadCycleCall ==
  /\ mode = "benefit"
  /\ hcf.pc = "running"
  /\ hcf.stack # << >>
  /\ TopFrame.kind = "remove"
  /\ TopFrame.a \notin hcf.outBlocks
  /\ <<TopFrame.b, TopFrame.a>> \in hcf.ignoreEdges
  /\ blockIsDead(hcf.F, TopFrame.a, hcf.ignoreEdges)
  /\ \E i \in 1 .. Len(successors(hcf.F, TopFrame.a)) :
       LET S == successors(hcf.F, TopFrame.a)[i]
       IN /\ S \notin hcf.outBlocks
          /\ blockIsDead(hcf.F, S, hcf.ignoreEdges \cup {<<TopFrame.a, S>>})
          /\ TopFrame.b \in DeadReach(hcf, hcf.ignoreEdges \cup {<<TopFrame.a, S>>}, {S})
          /\ (TopFrame.b \notin hcf.outBlocks /\ blockIsDead(hcf.F, TopFrame.b, hcf.ignoreEdges \cup {<<TopFrame.a, S>>}))

\* the estimator terminates unless a cycle of blocks becomes dead
TerminatesUnlessDeadCycle == <>(mode = "benefit" => (hcf.pc = "done" \/ DeadCycleCall))

====
